------------------------------ MODULE PageProofs ------------------------------
(***************************************************************************)
(* Proofs about Page.tla for every calendar of the schedule, every bar     *)
(* spec and every tape: the boundaries miss no edge, so VWAP and CVD are   *)
(* of the trades since the last one; the bars cut the tape; the value area *)
(* covers; and the page replayed trade by trade is the page composed at    *)
(* once.                                                                   *)
(***************************************************************************)
EXTENDS Page, OperatorProofs

-----------------------------------------------------------------------------
(* The calendar: the sessions of a date, and where they change. *)

\* The hours of a date that trades: the evening before to the afternoon.
OpenHours(d, h) ==
    /\ h.closed = FALSE
    /\ h.ethOpen = d * 96 - 28 /\ h.rthOpen = d * 96 + 34
    /\ h.ethClose \in {d * 96 + 64, d * 96 + 49}
    /\ h.rthClose \in {d * 96 + 60, d * 96 + 49, d * 96 + 64}
    /\ h.rthClose <= h.ethClose
    /\ h.halt \in {{}, {d * 96 + 61}}

\* The clock times of the templates, in quarters of an hour.
LEMMA ClockTimes ==
    /\ At(17, 0) - Day = -28 /\ At(8, 30) = 34 /\ At(16, 0) = 64 /\ At(15, 0) = 60
    /\ At(12, 15) = 49 /\ At(15, 15)..(At(15, 30) - 1) = {61}
<1>1. At(15, 15) = 61 /\ At(15, 30) = 62
  BY DEF At
<1>2. 61..(62 - 1) = {61}
  OBVIOUS
<1> QED BY <1>1, <1>2 DEF At, Day

\* A template laid on day d opens: the three there are.
LEMMA OnOpens ==
  ASSUME NEW d \in Int, NEW ec, NEW rc, NEW halt,
         \/ ec = 64 /\ rc = 60 /\ halt = {}
         \/ ec = 49 /\ rc = 49 /\ halt = {}
         \/ ec = 64 /\ rc = 64 /\ halt = {61}
  PROVE  OpenHours(d, On(d, Template(ec, rc, halt)))
<1> DEFINE p == Template(ec, rc, halt)
           h == On(d, p)
<1>1. /\ p.closed = FALSE /\ p.ethOpen = -28 /\ p.ethClose = ec
      /\ p.rthOpen = 34 /\ p.rthClose = rc /\ p.halt = halt
  BY ClockTimes DEF Template
<1>2. h = [closed |-> FALSE,
           ethOpen |-> d * Day + p.ethOpen, ethClose |-> d * Day + p.ethClose,
           rthOpen |-> d * Day + p.rthOpen, rthClose |-> d * Day + p.rthClose,
           halt |-> {d * Day + c : c \in p.halt}]
  BY <1>1 DEF On
<1> HIDE DEF p
<1>3. /\ h.closed = FALSE /\ h.ethOpen = d * 96 - 28 /\ h.ethClose = d * 96 + ec
      /\ h.rthOpen = d * 96 + 34 /\ h.rthClose = d * 96 + rc
      /\ h.halt = {d * 96 + c : c \in halt}
  <2>1. d * 96 + (-28) = d * 96 - 28
    OBVIOUS
  <2> QED BY <1>1, <1>2, <2>1 DEF Day
<1>4. {d * 96 + c : c \in {}} = {} /\ {d * 96 + c : c \in {61}} = {d * 96 + 61}
  OBVIOUS
<1> HIDE DEF h
<1>5. h.halt \in {{}, {d * 96 + 61}}
  BY <1>3, <1>4
<1>6. /\ h.ethClose \in {d * 96 + 64, d * 96 + 49}
      /\ h.rthClose \in {d * 96 + 60, d * 96 + 49, d * 96 + 64}
      /\ h.rthClose <= h.ethClose
  BY <1>3
<1> QED BY <1>3, <1>5, <1>6 DEF OpenHours, h, p

\* Every date is closed or has such hours, whatever is a holiday, an early
\* close or a month end.
LEMMA HoursAre ==
  ASSUME NEW d \in Int
  PROVE  HoursFor(d) = Closed \/ OpenHours(d, HoursFor(d))
<1> DEFINE T == {Closed, Regular, EarlyClose1215, MonthEndSettlement}
<1>1. \A w \in DOMAIN Overrides : Overrides[w] \in T
  BY DEF Overrides
<1>2. Weekly[d % 7] \in T
  <2>1. d % 7 \in 0..6
    OBVIOUS
  <2> QED BY <2>1 DEF Weekly
<1>3. PICK p \in T : HoursFor(d) = On(d, p)
  BY <1>1, <1>2 DEF HoursFor
<1>4. CASE p = Closed
  BY <1>3, <1>4 DEF On, Closed
<1>5. CASE p # Closed
  <2>1. \/ p = Template(64, 60, {}) \/ p = Template(49, 49, {}) \/ p = Template(64, 64, {61})
    BY <1>5, ClockTimes DEF Regular, EarlyClose1215, MonthEndSettlement
  <2> QED BY <2>1, <1>3, OnOpens
<1> QED BY <1>4, <1>5

\* The cuts of a date are its opens and closes and the two edges of its halt.
LEMMA CutsAre ==
  ASSUME NEW d \in Int
  PROVE  /\ Cuts(d) \subseteq Int
         /\ LET h == HoursFor(d)
            IN OpenHours(d, h) =>
                 /\ {h.ethOpen, h.rthOpen, h.rthClose, h.ethClose} \subseteq Cuts(d)
                 /\ h.halt # {} => {d * 96 + 61, d * 96 + 62} \subseteq Cuts(d)
<1> DEFINE h == HoursFor(d)
<1>1. CASE h = Closed
  <2>1. h.closed = TRUE /\ Cuts(d) = {}
    BY <1>1 DEF Closed, Cuts
  <2> QED BY <2>1 DEF OpenHours
<1>2. CASE OpenHours(d, h)
  <2> HIDE DEF h
  <2>1. h.halt = {} \/ (h.halt # {} /\ Min(h.halt) = d * 96 + 61 /\ Max(h.halt) = d * 96 + 61)
    <3>1. \A x \in Int : Min({x}) = x /\ Max({x}) = x
      <4> SUFFICES ASSUME NEW x \in Int PROVE Min({x}) = x /\ Max({x}) = x
        OBVIOUS
      <4>1. {x} \subseteq Int /\ IsFiniteSet({x}) /\ {x} # {}
        BY FS_Singleton
      <4>2. Min({x}) \in {x} /\ Max({x}) \in {x}
        BY <4>1, Extremes
      <4> QED BY <4>2
    <3>2. d * 96 + 61 \in Int /\ (d * 96 + 61) \in {d * 96 + 61}
      OBVIOUS
    <3>3. h.halt = {} \/ h.halt = {d * 96 + 61}
      BY <1>2 DEF OpenHours
    <3>4. CASE h.halt = {d * 96 + 61}
      <4>1. Min(h.halt) = d * 96 + 61 /\ Max(h.halt) = d * 96 + 61 /\ h.halt # {}
        BY <3>1, <3>2, <3>4
      <4> QED BY <4>1
    <3> QED BY <3>3, <3>4
  <2>2. Cuts(d) = {h.ethOpen, h.rthOpen, h.rthClose, h.ethClose}
                  \cup (IF h.halt = {} THEN {} ELSE {Min(h.halt), Max(h.halt) + 1})
    BY <1>2 DEF Cuts, OpenHours, h
  <2>3. h.ethOpen \in Int /\ h.rthOpen \in Int /\ h.rthClose \in Int /\ h.ethClose \in Int
    BY <1>2 DEF OpenHours
  <2>4. (d * 96 + 61) + 1 = d * 96 + 62 /\ d * 96 + 61 \in Int /\ d * 96 + 62 \in Int
    OBVIOUS
  <2>5. CASE h.halt = {}
    BY <2>2, <2>3, <2>5 DEF h
  <2>6. CASE h.halt # {}
    <3>1. Cuts(d) = {h.ethOpen, h.rthOpen, h.rthClose, h.ethClose}
                      \cup {d * 96 + 61, d * 96 + 62}
      BY <2>1, <2>2, <2>4, <2>6
    <3> QED BY <3>1, <2>3, <2>4 DEF h
  <2> QED BY <2>5, <2>6
<1> QED BY <1>1, <1>2, HoursAre

\* The session of a date changes at its cuts only.
LEMMA SessionChanges ==
  ASSUME NEW d \in Int, NEW t \in Int, t \notin Cuts(d)
  PROVE  SessionAt(HoursFor(d), t - 1) = SessionAt(HoursFor(d), t)
<1> DEFINE h == HoursFor(d)
<1>1. CASE h = Closed
  BY <1>1 DEF SessionAt, Closed
<1>2. CASE OpenHours(d, h)
  <2>1. /\ t # h.ethOpen /\ t # h.rthOpen /\ t # h.rthClose /\ t # h.ethClose
        /\ h.halt # {} => t # d * 96 + 61 /\ t # d * 96 + 62
    BY <1>2, CutsAre
  <2> HIDE DEF h
  <2>2. t - 1 \in h.halt <=> t \in h.halt
    <3>1. h.halt = {} \/ h.halt = {d * 96 + 61}
      BY <1>2 DEF OpenHours
    <3>2. CASE h.halt = {d * 96 + 61}
      <4>1. t # d * 96 + 61 /\ t # d * 96 + 62
        BY <2>1, <3>2
      <4>2. t - 1 # d * 96 + 61
        BY <4>1
      <4> QED BY <3>2, <4>1, <4>2
    <3> QED BY <3>1, <3>2
  <2>3. h.ethOpen \in Int /\ h.rthOpen \in Int /\ h.rthClose \in Int /\ h.ethClose \in Int
    BY <1>2 DEF OpenHours
  <2>4. /\ h.rthOpen <= t - 1 <=> h.rthOpen <= t
        /\ t - 1 < h.rthClose <=> t < h.rthClose
        /\ h.ethOpen <= t - 1 <=> h.ethOpen <= t
        /\ t - 1 < h.ethClose <=> t < h.ethClose
    BY <2>1, <2>3
  <2>5. SessionAt(h, t - 1) = SessionAt(h, t)
    BY <2>2, <2>4 DEF SessionAt
  <2> QED BY <2>5 DEF h
<1> QED BY <1>1, <1>2, HoursAre

\* Outside the evening before and its day a date has no session.
LEMMA SessionWithin ==
  ASSUME NEW d \in Int, NEW t \in Int, t < d * 96 - 28 \/ t >= d * 96 + 64
  PROVE  SessionAt(HoursFor(d), t) = "Closed"
<1> DEFINE h == HoursFor(d)
<1>1. CASE h = Closed
  BY <1>1 DEF SessionAt, Closed
<1>2. CASE OpenHours(d, h)
  <2> HIDE DEF h
  <2>1. ~(h.rthOpen <= t /\ t < h.rthClose) /\ ~(h.ethOpen <= t /\ t < h.ethClose)
    BY <1>2 DEF OpenHours
  <2> QED BY <2>1 DEF SessionAt, h
<1> QED BY <1>1, <1>2, HoursAre

\* The day of an instant, and of the one before it.
LEMMA DayOf ==
  ASSUME NEW t \in Int
  PROVE  /\ t \div Day \in Int
         /\ (t \div Day) * 96 <= t /\ t < (t \div Day) * 96 + 96
         /\ IF t = (t \div Day) * 96 THEN (t - 1) \div Day = (t \div Day) - 1
            ELSE (t - 1) \div Day = t \div Day
  BY DEF Day

\* Classify changes its answer at cuts only; at midnight the date before is
\* over and the next has not begun.
LEMMA ClassifyChanges ==
  ASSUME NEW t \in Int, t \notin Cuts(t \div Day), t \notin Cuts((t \div Day) + 1)
  PROVE  Classify(t - 1) = Classify(t)
<1> DEFINE d == t \div Day
           L(x, u) == <<x, SessionAt(HoursFor(x), u)>>
<1>1. /\ d \in Int
      /\ t = d * 96 => (t - 1) \div Day = d - 1
      /\ t # d * 96 => (t - 1) \div Day = d
  BY DayOf
<1>2. \A u : Classify(u) = FirstOpen(L(u \div Day, u), L((u \div Day) + 1, u))
  BY DEF Classify
<1>3. L(d, t - 1) = L(d, t) /\ L(d + 1, t - 1) = L(d + 1, t)
  <2>1. d + 1 \in Int
    <3> HIDE DEF d
    <3> QED BY <1>1
  <2> QED BY <1>1, <2>1, SessionChanges
<1> HIDE DEF L
<1>4. CASE t # d * 96
  BY <1>1, <1>2, <1>3, <1>4
<1>5. CASE t = d * 96
  <2>1. Classify(t - 1) = FirstOpen(L(d - 1, t - 1), L(d, t - 1))
    <3>1. (d - 1) + 1 = d
      BY <1>1
    <3> HIDE DEF d
    <3> QED BY <1>1, <1>2, <1>5, <3>1
  <2>2. L(d - 1, t - 1) = <<d - 1, "Closed">> /\ L(d + 1, t) = <<d + 1, "Closed">>
    <3>1. d - 1 \in Int /\ d + 1 \in Int /\ t - 1 >= (d - 1) * 96 + 64
          /\ t < (d + 1) * 96 - 28 /\ t - 1 \in Int
      <4> HIDE DEF d
      <4> QED BY <1>1, <1>5
    <3>2. /\ SessionAt(HoursFor(d - 1), t - 1) = "Closed"
          /\ SessionAt(HoursFor(d + 1), t) = "Closed"
      BY <3>1, SessionWithin
    <3> QED BY <3>2 DEF L
  <2>3. Classify(t) = FirstOpen(L(d, t), L(d + 1, t))
    BY <1>2
  <2>4. \A x, a : FirstOpen(<<x, "Closed">>, a) = FirstOpen(a, <<x, "Closed">>)
    BY DEF FirstOpen
  <2>5. FirstOpen(<<d - 1, "Closed">>, L(d, t)) = FirstOpen(L(d, t), <<d + 1, "Closed">>)
    BY DEF FirstOpen
  <2> QED BY <2>1, <2>2, <2>3, <2>5, <1>3
<1> QED BY <1>4, <1>5

\* Every instant of [from, to) at which Classify changes its answer, and no
\* other, is among the boundaries.
Edges(from, to) == {at \in Int : from <= at /\ at < to /\ Classify(at - 1) # Classify(at)}

\* Boundaries lists every edge in its range: the days it looks at are enough.
LEMMA BoundariesAre ==
  ASSUME NEW from \in Int, NEW to \in Int
  PROVE  /\ Boundaries(from, to) = Ascending(Edges(from, to))
         /\ Edges(from, to) \subseteq Int /\ IsFiniteSet(Edges(from, to))
<1> DEFINE days == (from \div Day) - 2 .. (to \div Day) + 2
           E == {at \in UNION {Cuts(d) : d \in days} :
                    from <= at /\ at < to /\ Classify(at - 1) # Classify(at)}
<1>1. E \subseteq Edges(from, to)
  <2>1. \A d \in days : d \in Int /\ Cuts(d) \subseteq Int
    BY CutsAre
  <2> QED BY <2>1 DEF Edges
<1>2. ASSUME NEW at \in Edges(from, to) PROVE at \in E
  <2>1. at \in Int /\ from <= at /\ at < to /\ Classify(at - 1) # Classify(at)
    BY DEF Edges
  <2>2. at \in Cuts(at \div Day) \/ at \in Cuts((at \div Day) + 1)
    BY <2>1, ClassifyChanges
  <2>3. at \div Day \in days /\ (at \div Day) + 1 \in days
    BY <2>1 DEF Day
  <2> QED BY <2>1, <2>2, <2>3
<1>3. E = Edges(from, to)
  BY <1>1, <1>2
<1>4. Boundaries(from, to) = Ascending(E)
  BY DEF Boundaries
<1>5. Edges(from, to) \in SUBSET (from..to) /\ Edges(from, to) \subseteq Int
  BY DEF Edges
<1>6. IsFiniteSet(Edges(from, to))
  BY <1>5, FS_Interval, FS_Subset
<1> QED BY <1>3, <1>4, <1>5, <1>6

\* A trade of a session lies within the hours of its date.
LEMMA ClassifyWithin ==
  ASSUME NEW t \in Int, Classify(t)[2] # "Closed"
  PROVE  LET d == Classify(t)[1]
             h == HoursFor(d)
         IN /\ d \in Int /\ OpenHours(d, h)
            /\ Classify(t)[2] = "RTH" => h.rthOpen <= t /\ t < h.rthClose
            /\ Classify(t)[2] = "ETH" => h.ethOpen <= t /\ t < h.ethClose
            /\ Classify(t)[2] \in {"RTH", "ETH"}
<1> DEFINE d == Classify(t)[1]
           h == HoursFor(d)
<1>1. d \in Int /\ SessionAt(h, t) = Classify(t)[2]
  <2> DEFINE L(x) == <<x, SessionAt(HoursFor(x), t)>>
  <2>1. Classify(t) = FirstOpen(L(t \div Day), L((t \div Day) + 1))
    BY DEF Classify
  <2>2. Classify(t) = L(t \div Day) \/ Classify(t) = L((t \div Day) + 1)
    <3>1. <<NoDate, "Closed">>[2] = "Closed"
      OBVIOUS
    <3> HIDE DEF L
    <3> QED BY <2>1, <3>1 DEF FirstOpen
  <2>3. t \div Day \in Int /\ (t \div Day) + 1 \in Int
    BY DayOf
  <2>4. \A x : L(x)[1] = x /\ L(x)[2] = SessionAt(HoursFor(x), t)
    OBVIOUS
  <2> HIDE DEF L
  <2> QED BY <2>2, <2>3, <2>4
<1>2. h # Closed
  <2> SUFFICES ASSUME h = Closed PROVE FALSE
    OBVIOUS
  <2>1. SessionAt(h, t) = "Closed"
    BY DEF SessionAt, Closed
  <2> QED BY <2>1, <1>1
<1>3. OpenHours(d, h)
  BY <1>1, <1>2, HoursAre
<1> HIDE DEF d, h
<1>4. SessionAt(h, t) # "Closed"
  BY <1>1
<1>5. /\ SessionAt(h, t) = "RTH" => h.rthOpen <= t /\ t < h.rthClose
      /\ SessionAt(h, t) = "ETH" => h.ethOpen <= t /\ t < h.ethClose
      /\ SessionAt(h, t) \in {"RTH", "ETH"}
  BY <1>4 DEF SessionAt
<1> QED BY <1>1, <1>3, <1>5 DEF d, h

-----------------------------------------------------------------------------
(* What is accumulated from trades, and the folds over a tape. *)

\* The types of a trade and of what is accumulated from trades.
TradeRec == [ts : Int, px : Int, qty : Nat, side : {"bid", "ask", "none"}]
FlowRec == [buy : Int, sell : Int, pv : Int, v : Int]

LEMMA FlowTradeType ==
  ASSUME NEW f \in FlowRec, NEW e \in TradeRec
  PROVE  FlowTrade(f, e) \in FlowRec
<1>1. /\ f.buy \in Int /\ f.sell \in Int /\ f.pv \in Int /\ f.v \in Int
      /\ e.px \in Int /\ e.qty \in Int /\ e.px * e.qty \in Int
  BY DEF FlowRec, TradeRec
<1> QED BY <1>1 DEF FlowTrade, FlowRec

\* The flow of the trades so far, trade by trade.
FlowRun(base, w) == FoldLeft(FlowTrade, base, w)

\* The fold of a tape into VWAP and CVD, trade by trade.
LEMMA FlowFold ==
  ASSUME NEW base \in FlowRec
  PROVE  /\ FlowRun(base, <<>>) = base
         /\ \A w \in Seq(TradeRec) : FlowRun(base, w) \in FlowRec
         /\ \A w \in Seq(TradeRec), e \in TradeRec :
               FlowRun(base, Append(w, e)) = FlowTrade(FlowRun(base, w), e)
<1> DEFINE F == [a \in FlowRec |-> [x \in TradeRec |-> FlowTrade(a, x)]]
<1>1. IsStep(F, TradeRec, FlowRec) /\ \A a \in FlowRec, x \in TradeRec : F[a][x] = FlowTrade(a, x)
  <2>1. \A a \in FlowRec, x \in TradeRec : FlowTrade(a, x) \in FlowRec
    BY FlowTradeType
  <2> QED BY <2>1 DEF IsStep
<1> DEFINE V == FlowRec
           A == TradeRec
<1> HIDE DEF F, V, A
<1>2. ASSUME NEW w \in Seq(TradeRec)
      PROVE  FlowRun(base, w) = RunOf(F, base, w)
  <2> DEFINE Fix(it) == it = [part \in SUBSET DOMAIN w |->
                                IF part = {} THEN base
                                ELSE LET x == Max(part) IN FlowTrade(it[part \ {x}], w[x])]
             it == CHOOSE it : Fix(it)
  <2>1. \A part \in SUBSET DOMAIN w : part # {} => w[Max(part)] \in TradeRec
    <3>1. DOMAIN w = 1..Len(w) /\ Len(w) \in Nat /\ \A k \in 1..Len(w) : w[k] \in TradeRec
      OBVIOUS
    <3> QED BY <3>1, MaxFacts
  <2>2. \E f : Fix(f)
    <3>1. PICK f : Solves(f, F, FlowRec, base, w)
      BY <1>1, FoldSolution DEF V
    <3>2. ASSUME NEW part \in SUBSET DOMAIN w, part # {}
          PROVE  f[part] = FlowTrade(f[part \ {Max(part)}], w[Max(part)])
      <4>1. f[part \ {Max(part)}] \in FlowRec /\ f[part] = F[f[part \ {Max(part)}]][w[Max(part)]]
        BY <3>1, <3>2 DEF Solves
      <4> QED BY <4>1, <3>2, <2>1, <1>1
    <3>3. f = [part \in SUBSET DOMAIN w |-> f[part]] /\ f[{}] = base
      BY <3>1 DEF Solves
    <3> QED BY <3>2, <3>3
  <2>3. Fix(it)
    <3> HIDE DEF Fix
    <3> QED BY <2>2, Zenon
  <2>4. FlowRun(base, w) = it[DOMAIN w]
    BY DEF FlowRun, FoldLeft, MapThenFoldSet
  <2> HIDE DEF it
  <2>5. it[{}] = base
    BY <2>3
  <2>6. ASSUME NEW part \in SUBSET DOMAIN w, part # {}, it[part \ {Max(part)}] \in FlowRec
        PROVE  it[part] = F[it[part \ {Max(part)}]][w[Max(part)]]
    BY <2>3, <2>6, <2>1, <1>1
  <2>7. it[DOMAIN w] = RunOf(F, base, w)
    <3> HIDE DEF Fix
    <3>1. IsStep(F, A, V) /\ base \in V /\ w \in Seq(A)
      BY <1>1 DEF V, A
    <3>2. StepsAlong(it, F, V, base, w)
      BY <2>5, <2>6 DEF V, StepsAlong
    <3> QED BY <3>1, <3>2, FoldIsRun
  <2> QED BY <2>4, <2>7
<1>3. /\ RunOf(F, base, <<>>) = base
      /\ \A w \in Seq(TradeRec) : RunOf(F, base, w) \in FlowRec
      /\ \A w \in Seq(TradeRec), e \in TradeRec :
            RunOf(F, base, Append(w, e)) = F[RunOf(F, base, w)][e]
  BY <1>1, RunFacts
<1>4. <<>> \in Seq(TradeRec) /\ \A w \in Seq(TradeRec), e \in TradeRec : Append(w, e) \in Seq(TradeRec)
  OBVIOUS
<1>5. ASSUME NEW w \in Seq(TradeRec), NEW e \in TradeRec
      PROVE  FlowRun(base, Append(w, e)) = FlowTrade(FlowRun(base, w), e)
  <2>1. Append(w, e) \in Seq(TradeRec) /\ RunOf(F, base, w) \in FlowRec
    BY <1>3, <1>4
  <2>2. /\ FlowRun(base, Append(w, e)) = RunOf(F, base, Append(w, e))
        /\ FlowRun(base, w) = RunOf(F, base, w)
    BY <2>1, <1>2
  <2>3. F[RunOf(F, base, w)][e] = FlowTrade(RunOf(F, base, w), e)
    BY <2>1, <1>1
  <2>4. RunOf(F, base, Append(w, e)) = F[RunOf(F, base, w)][e]
    BY <1>3
  <2> QED BY <2>2, <2>3, <2>4
<1>6. FlowRun(base, <<>>) = base
  BY <1>2, <1>3, <1>4
<1>7. \A w \in Seq(TradeRec) : FlowRun(base, w) \in FlowRec
  BY <1>2, <1>3
<1> QED BY <1>5, <1>6, <1>7

\* An orchestrator with boundaries b.
OrchRec(b) == [bounds : {b}, next : Nat, flow : FlowRec]

LEMMA OnFlowType ==
  ASSUME NEW b \in Seq(Int), NEW o \in OrchRec(b), NEW e \in TradeRec
  PROVE  OnFlow(o, e) \in OrchRec(b)
<1> DEFINE passed == {i \in o.next..Len(o.bounds) :
                        \A j \in o.next..i : o.bounds[j] <= e.ts}
<1>1. /\ o.bounds = b /\ o.next \in Nat /\ o.flow \in FlowRec /\ Len(b) \in Nat
      /\ o = [bounds |-> o.bounds, next |-> o.next, flow |-> o.flow]
  BY DEF OrchRec
<1>2. passed \in SUBSET (o.next..Len(b))
  BY <1>1
<1>3. Cardinality(passed) \in Nat
  <2> HIDE DEF passed
  <2>1. IsFiniteSet(o.next..Len(b))
    BY <1>1, FS_Interval
  <2> QED BY <1>2, <2>1, FS_Subset, FS_CardinalityType
<1>4. NoFlow \in FlowRec
  BY DEF NoFlow, FlowRec
<1>5. OnFlow(o, e) = [o EXCEPT !.next = @ + Cardinality(passed),
                               !.flow = FlowTrade(IF passed = {} THEN @ ELSE NoFlow, e)]
  BY DEF OnFlow
<1> HIDE DEF passed
<1>6. FlowTrade(IF passed = {} THEN o.flow ELSE NoFlow, e) \in FlowRec
  BY <1>1, <1>4, FlowTradeType
<1>7. o.next + Cardinality(passed) \in Nat
  BY <1>1, <1>3
<1> QED BY <1>1, <1>5, <1>6, <1>7 DEF OrchRec

\* The orchestrator, trade by trade.
OrchRun(base, w) == FoldLeft(OnFlow, base, w)

\* The fold of a tape through an orchestrator.
LEMMA OnFlowFold ==
  ASSUME NEW b \in Seq(Int), NEW base \in OrchRec(b)
  PROVE  /\ OrchRun(base, <<>>) = base
         /\ \A w \in Seq(TradeRec) : OrchRun(base, w) \in OrchRec(b)
         /\ \A w \in Seq(TradeRec), e \in TradeRec :
               OrchRun(base, Append(w, e)) = OnFlow(OrchRun(base, w), e)
<1> DEFINE F == [a \in OrchRec(b) |-> [x \in TradeRec |-> OnFlow(a, x)]]
<1>1. IsStep(F, TradeRec, OrchRec(b)) /\ \A a \in OrchRec(b), x \in TradeRec : F[a][x] = OnFlow(a, x)
  <2>1. \A a \in OrchRec(b), x \in TradeRec : OnFlow(a, x) \in OrchRec(b)
    BY OnFlowType
  <2> QED BY <2>1 DEF IsStep
<1> DEFINE V == OrchRec(b)
           A == TradeRec
<1> HIDE DEF F, V, A
<1>2. ASSUME NEW w \in Seq(TradeRec)
      PROVE  OrchRun(base, w) = RunOf(F, base, w)
  <2> DEFINE Fix(it) == it = [part \in SUBSET DOMAIN w |->
                                IF part = {} THEN base
                                ELSE LET x == Max(part) IN OnFlow(it[part \ {x}], w[x])]
             it == CHOOSE it : Fix(it)
  <2>1. \A part \in SUBSET DOMAIN w : part # {} => w[Max(part)] \in TradeRec
    <3>1. DOMAIN w = 1..Len(w) /\ Len(w) \in Nat /\ \A k \in 1..Len(w) : w[k] \in TradeRec
      OBVIOUS
    <3> QED BY <3>1, MaxFacts
  <2>2. \E f : Fix(f)
    <3>1. PICK f : Solves(f, F, OrchRec(b), base, w)
      BY <1>1, FoldSolution DEF V
    <3>2. ASSUME NEW part \in SUBSET DOMAIN w, part # {}
          PROVE  f[part] = OnFlow(f[part \ {Max(part)}], w[Max(part)])
      <4>1. f[part \ {Max(part)}] \in OrchRec(b) /\ f[part] = F[f[part \ {Max(part)}]][w[Max(part)]]
        BY <3>1, <3>2 DEF Solves
      <4> QED BY <4>1, <3>2, <2>1, <1>1
    <3>3. f = [part \in SUBSET DOMAIN w |-> f[part]] /\ f[{}] = base
      BY <3>1 DEF Solves
    <3> QED BY <3>2, <3>3
  <2>3. Fix(it)
    <3> HIDE DEF Fix
    <3> QED BY <2>2, Zenon
  <2>4. OrchRun(base, w) = it[DOMAIN w]
    BY DEF OrchRun, FoldLeft, MapThenFoldSet
  <2> HIDE DEF it
  <2>5. it[{}] = base
    BY <2>3
  <2>6. ASSUME NEW part \in SUBSET DOMAIN w, part # {}, it[part \ {Max(part)}] \in OrchRec(b)
        PROVE  it[part] = F[it[part \ {Max(part)}]][w[Max(part)]]
    BY <2>3, <2>6, <2>1, <1>1
  <2>7. it[DOMAIN w] = RunOf(F, base, w)
    <3> HIDE DEF Fix
    <3>1. IsStep(F, A, V) /\ base \in V /\ w \in Seq(A)
      BY <1>1 DEF V, A
    <3>2. StepsAlong(it, F, V, base, w)
      BY <2>5, <2>6 DEF V, StepsAlong
    <3> QED BY <3>1, <3>2, FoldIsRun
  <2> QED BY <2>4, <2>7
<1>3. /\ RunOf(F, base, <<>>) = base
      /\ \A w \in Seq(TradeRec) : RunOf(F, base, w) \in OrchRec(b)
      /\ \A w \in Seq(TradeRec), e \in TradeRec :
            RunOf(F, base, Append(w, e)) = F[RunOf(F, base, w)][e]
  BY <1>1, RunFacts
<1>4. <<>> \in Seq(TradeRec) /\ \A w \in Seq(TradeRec), e \in TradeRec : Append(w, e) \in Seq(TradeRec)
  OBVIOUS
<1>5. ASSUME NEW w \in Seq(TradeRec), NEW e \in TradeRec
      PROVE  OrchRun(base, Append(w, e)) = OnFlow(OrchRun(base, w), e)
  <2>1. Append(w, e) \in Seq(TradeRec) /\ RunOf(F, base, w) \in OrchRec(b)
    BY <1>3, <1>4
  <2>2. /\ OrchRun(base, Append(w, e)) = RunOf(F, base, Append(w, e))
        /\ OrchRun(base, w) = RunOf(F, base, w)
    BY <2>1, <1>2
  <2>3. F[RunOf(F, base, w)][e] = OnFlow(RunOf(F, base, w), e)
    BY <2>1, <1>1
  <2>4. RunOf(F, base, Append(w, e)) = F[RunOf(F, base, w)][e]
    BY <1>3
  <2> QED BY <2>2, <2>3, <2>4
<1>6. OrchRun(base, <<>>) = base
  BY <1>2, <1>3, <1>4
<1>7. \A w \in Seq(TradeRec) : OrchRun(base, w) \in OrchRec(b)
  BY <1>2, <1>3
<1> QED BY <1>5, <1>6, <1>7

\* Functions from finitely many prices to what traded there.
FiniteSets_Int == {S \in SUBSET Int : IsFiniteSet(S)}
\* Volume profiles, footprints and the letters of a TPO: finitely many prices.
Profiles == UNION {[D -> Nat \ {0}] : D \in FiniteSets_Int}
Footprints == UNION {[D -> [buy : Int, sell : Int]] : D \in FiniteSets_Int}
Periods == UNION {[D -> SUBSET Int] : D \in FiniteSets_Int}

\* Setting one price of such a function.
LEMMA WithFacts ==
  ASSUME NEW R, NEW D \in FiniteSets_Int, NEW f \in [D -> R], NEW k \in Int, NEW v \in R
  PROVE  /\ With(f, k, v) \in [D \cup {k} -> R] /\ D \cup {k} \in FiniteSets_Int
         /\ With(f, k, v)[k] = v /\ \A x \in D : x # k => With(f, k, v)[x] = f[x]
<1>1. IsFiniteSet(D \cup {k})
  BY FS_AddElement DEF FiniteSets_Int
<1>2. D \cup {k} \in FiniteSets_Int
  BY <1>1 DEF FiniteSets_Int
<1> QED BY <1>2 DEF With

LEMMA ProfileTradeType ==
  ASSUME NEW p \in Profiles, NEW e \in TradeRec
  PROVE  ProfileTrade(p, e) \in Profiles
<1>1. PICK D \in FiniteSets_Int : p \in [D -> Nat \ {0}]
  BY DEF Profiles
<1>2. e.px \in Int /\ e.qty \in Nat
  BY DEF TradeRec
<1>3. CASE e.qty <= 0
  BY <1>3 DEF ProfileTrade
<1>4. CASE ~(e.qty <= 0)
  <2> DEFINE v == Over(p, e.px, 0) + e.qty
  <2>1. v \in Nat \ {0}
    <3>1. Over(p, e.px, 0) \in Nat
      BY <1>1, <1>2 DEF Over
    <3> QED BY <3>1, <1>2, <1>4
  <2> HIDE DEF v
  <2>2. With(p, e.px, v) \in [D \cup {e.px} -> Nat \ {0}] /\ D \cup {e.px} \in FiniteSets_Int
    BY <1>1, <1>2, <2>1, WithFacts
  <2>3. With(p, e.px, v) \in Profiles
    BY <2>2 DEF Profiles
  <2> QED BY <2>3, <1>4 DEF ProfileTrade, v
<1> QED BY <1>3, <1>4

\* The volume profile, trade by trade.
ProfileRun(base, w) == FoldLeft(ProfileTrade, base, w)

\* The fold of a tape into a volume profile; a print of no contracts adds no price.
LEMMA ProfileFold ==
  ASSUME NEW base \in Profiles
  PROVE  /\ ProfileRun(base, <<>>) = base
         /\ \A w \in Seq(TradeRec) : ProfileRun(base, w) \in Profiles
         /\ \A w \in Seq(TradeRec), e \in TradeRec :
               ProfileRun(base, Append(w, e)) = ProfileTrade(ProfileRun(base, w), e)
<1> DEFINE F == [a \in Profiles |-> [x \in TradeRec |-> ProfileTrade(a, x)]]
<1>1. IsStep(F, TradeRec, Profiles) /\ \A a \in Profiles, x \in TradeRec : F[a][x] = ProfileTrade(a, x)
  <2>1. \A a \in Profiles, x \in TradeRec : ProfileTrade(a, x) \in Profiles
    BY ProfileTradeType
  <2> QED BY <2>1 DEF IsStep
<1> DEFINE V == Profiles
           A == TradeRec
<1> HIDE DEF F, V, A
<1>2. ASSUME NEW w \in Seq(TradeRec)
      PROVE  ProfileRun(base, w) = RunOf(F, base, w)
  <2> DEFINE Fix(it) == it = [part \in SUBSET DOMAIN w |->
                                IF part = {} THEN base
                                ELSE LET x == Max(part) IN ProfileTrade(it[part \ {x}], w[x])]
             it == CHOOSE it : Fix(it)
  <2>1. \A part \in SUBSET DOMAIN w : part # {} => w[Max(part)] \in TradeRec
    <3>1. DOMAIN w = 1..Len(w) /\ Len(w) \in Nat /\ \A k \in 1..Len(w) : w[k] \in TradeRec
      OBVIOUS
    <3> QED BY <3>1, MaxFacts
  <2>2. \E f : Fix(f)
    <3>1. PICK f : Solves(f, F, Profiles, base, w)
      BY <1>1, FoldSolution DEF V
    <3>2. ASSUME NEW part \in SUBSET DOMAIN w, part # {}
          PROVE  f[part] = ProfileTrade(f[part \ {Max(part)}], w[Max(part)])
      <4>1. f[part \ {Max(part)}] \in Profiles /\ f[part] = F[f[part \ {Max(part)}]][w[Max(part)]]
        BY <3>1, <3>2 DEF Solves
      <4> QED BY <4>1, <3>2, <2>1, <1>1
    <3>3. f = [part \in SUBSET DOMAIN w |-> f[part]] /\ f[{}] = base
      BY <3>1 DEF Solves
    <3> QED BY <3>2, <3>3
  <2>3. Fix(it)
    <3> HIDE DEF Fix
    <3> QED BY <2>2, Zenon
  <2>4. ProfileRun(base, w) = it[DOMAIN w]
    BY DEF ProfileRun, FoldLeft, MapThenFoldSet
  <2> HIDE DEF it
  <2>5. it[{}] = base
    BY <2>3
  <2>6. ASSUME NEW part \in SUBSET DOMAIN w, part # {}, it[part \ {Max(part)}] \in Profiles
        PROVE  it[part] = F[it[part \ {Max(part)}]][w[Max(part)]]
    BY <2>3, <2>6, <2>1, <1>1
  <2>7. it[DOMAIN w] = RunOf(F, base, w)
    <3> HIDE DEF Fix
    <3>1. IsStep(F, A, V) /\ base \in V /\ w \in Seq(A)
      BY <1>1 DEF V, A
    <3>2. StepsAlong(it, F, V, base, w)
      BY <2>5, <2>6 DEF V, StepsAlong
    <3> QED BY <3>1, <3>2, FoldIsRun
  <2> QED BY <2>4, <2>7
<1>3. /\ RunOf(F, base, <<>>) = base
      /\ \A w \in Seq(TradeRec) : RunOf(F, base, w) \in Profiles
      /\ \A w \in Seq(TradeRec), e \in TradeRec :
            RunOf(F, base, Append(w, e)) = F[RunOf(F, base, w)][e]
  BY <1>1, RunFacts
<1>4. <<>> \in Seq(TradeRec) /\ \A w \in Seq(TradeRec), e \in TradeRec : Append(w, e) \in Seq(TradeRec)
  OBVIOUS
<1>5. ASSUME NEW w \in Seq(TradeRec), NEW e \in TradeRec
      PROVE  ProfileRun(base, Append(w, e)) = ProfileTrade(ProfileRun(base, w), e)
  <2>1. Append(w, e) \in Seq(TradeRec) /\ RunOf(F, base, w) \in Profiles
    BY <1>3, <1>4
  <2>2. /\ ProfileRun(base, Append(w, e)) = RunOf(F, base, Append(w, e))
        /\ ProfileRun(base, w) = RunOf(F, base, w)
    BY <2>1, <1>2
  <2>3. F[RunOf(F, base, w)][e] = ProfileTrade(RunOf(F, base, w), e)
    BY <2>1, <1>1
  <2>4. RunOf(F, base, Append(w, e)) = F[RunOf(F, base, w)][e]
    BY <1>3
  <2> QED BY <2>2, <2>3, <2>4
<1>6. ProfileRun(base, <<>>) = base
  BY <1>2, <1>3, <1>4
<1>7. \A w \in Seq(TradeRec) : ProfileRun(base, w) \in Profiles
  BY <1>2, <1>3
<1> QED BY <1>5, <1>6, <1>7

LEMMA FootprintTradeType ==
  ASSUME NEW f \in Footprints, NEW e \in TradeRec
  PROVE  FootprintTrade(f, e) \in Footprints
<1> DEFINE R == [buy : Int, sell : Int]
<1>1. PICK D \in FiniteSets_Int : f \in [D -> R]
  BY DEF Footprints
<1>2. e.px \in Int /\ e.qty \in Int
  BY DEF TradeRec
<1>3. CASE e.qty <= 0 \/ e.side = "none"
  BY <1>3 DEF FootprintTrade
<1>4. CASE ~(e.qty <= 0 \/ e.side = "none")
  <2> DEFINE u == Over(f, e.px, NoVol)
             v == IF e.side = "bid" THEN [u EXCEPT !.buy = @ + e.qty]
                  ELSE [u EXCEPT !.sell = @ + e.qty]
  <2>1. u \in R
    BY <1>1, <1>2 DEF Over, NoVol
  <2>2. v \in R
    <3> HIDE DEF u
    <3> QED BY <2>1, <1>2
  <2>3. FootprintTrade(f, e) = With(f, e.px, v)
    BY <1>4 DEF FootprintTrade
  <2> HIDE DEF v, R
  <2>4. With(f, e.px, v) \in [D \cup {e.px} -> R] /\ D \cup {e.px} \in FiniteSets_Int
    BY <1>1, <1>2, <2>2, WithFacts
  <2> QED BY <2>3, <2>4 DEF Footprints, R
<1> QED BY <1>3, <1>4

\* A footprint, trade by trade.
FootprintRun(base, w) == FoldLeft(FootprintTrade, base, w)

\* The fold of a tape into a footprint.
LEMMA FootprintFold ==
  ASSUME NEW base \in Footprints
  PROVE  /\ FootprintRun(base, <<>>) = base
         /\ \A w \in Seq(TradeRec) : FootprintRun(base, w) \in Footprints
         /\ \A w \in Seq(TradeRec), e \in TradeRec :
               FootprintRun(base, Append(w, e)) = FootprintTrade(FootprintRun(base, w), e)
<1> DEFINE F == [a \in Footprints |-> [x \in TradeRec |-> FootprintTrade(a, x)]]
<1>1. IsStep(F, TradeRec, Footprints) /\ \A a \in Footprints, x \in TradeRec : F[a][x] = FootprintTrade(a, x)
  <2>1. \A a \in Footprints, x \in TradeRec : FootprintTrade(a, x) \in Footprints
    BY FootprintTradeType
  <2> QED BY <2>1 DEF IsStep
<1> DEFINE V == Footprints
           A == TradeRec
<1> HIDE DEF F, V, A
<1>2. ASSUME NEW w \in Seq(TradeRec)
      PROVE  FootprintRun(base, w) = RunOf(F, base, w)
  <2> DEFINE Fix(it) == it = [part \in SUBSET DOMAIN w |->
                                IF part = {} THEN base
                                ELSE LET x == Max(part) IN FootprintTrade(it[part \ {x}], w[x])]
             it == CHOOSE it : Fix(it)
  <2>1. \A part \in SUBSET DOMAIN w : part # {} => w[Max(part)] \in TradeRec
    <3>1. DOMAIN w = 1..Len(w) /\ Len(w) \in Nat /\ \A k \in 1..Len(w) : w[k] \in TradeRec
      OBVIOUS
    <3> QED BY <3>1, MaxFacts
  <2>2. \E f : Fix(f)
    <3>1. PICK f : Solves(f, F, Footprints, base, w)
      BY <1>1, FoldSolution DEF V
    <3>2. ASSUME NEW part \in SUBSET DOMAIN w, part # {}
          PROVE  f[part] = FootprintTrade(f[part \ {Max(part)}], w[Max(part)])
      <4>1. f[part \ {Max(part)}] \in Footprints /\ f[part] = F[f[part \ {Max(part)}]][w[Max(part)]]
        BY <3>1, <3>2 DEF Solves
      <4> QED BY <4>1, <3>2, <2>1, <1>1
    <3>3. f = [part \in SUBSET DOMAIN w |-> f[part]] /\ f[{}] = base
      BY <3>1 DEF Solves
    <3> QED BY <3>2, <3>3
  <2>3. Fix(it)
    <3> HIDE DEF Fix
    <3> QED BY <2>2, Zenon
  <2>4. FootprintRun(base, w) = it[DOMAIN w]
    BY DEF FootprintRun, FoldLeft, MapThenFoldSet
  <2> HIDE DEF it
  <2>5. it[{}] = base
    BY <2>3
  <2>6. ASSUME NEW part \in SUBSET DOMAIN w, part # {}, it[part \ {Max(part)}] \in Footprints
        PROVE  it[part] = F[it[part \ {Max(part)}]][w[Max(part)]]
    BY <2>3, <2>6, <2>1, <1>1
  <2>7. it[DOMAIN w] = RunOf(F, base, w)
    <3> HIDE DEF Fix
    <3>1. IsStep(F, A, V) /\ base \in V /\ w \in Seq(A)
      BY <1>1 DEF V, A
    <3>2. StepsAlong(it, F, V, base, w)
      BY <2>5, <2>6 DEF V, StepsAlong
    <3> QED BY <3>1, <3>2, FoldIsRun
  <2> QED BY <2>4, <2>7
<1>3. /\ RunOf(F, base, <<>>) = base
      /\ \A w \in Seq(TradeRec) : RunOf(F, base, w) \in Footprints
      /\ \A w \in Seq(TradeRec), e \in TradeRec :
            RunOf(F, base, Append(w, e)) = F[RunOf(F, base, w)][e]
  BY <1>1, RunFacts
<1>4. <<>> \in Seq(TradeRec) /\ \A w \in Seq(TradeRec), e \in TradeRec : Append(w, e) \in Seq(TradeRec)
  OBVIOUS
<1>5. ASSUME NEW w \in Seq(TradeRec), NEW e \in TradeRec
      PROVE  FootprintRun(base, Append(w, e)) = FootprintTrade(FootprintRun(base, w), e)
  <2>1. Append(w, e) \in Seq(TradeRec) /\ RunOf(F, base, w) \in Footprints
    BY <1>3, <1>4
  <2>2. /\ FootprintRun(base, Append(w, e)) = RunOf(F, base, Append(w, e))
        /\ FootprintRun(base, w) = RunOf(F, base, w)
    BY <2>1, <1>2
  <2>3. F[RunOf(F, base, w)][e] = FootprintTrade(RunOf(F, base, w), e)
    BY <2>1, <1>1
  <2>4. RunOf(F, base, Append(w, e)) = F[RunOf(F, base, w)][e]
    BY <1>3
  <2> QED BY <2>2, <2>3, <2>4
<1>6. FootprintRun(base, <<>>) = base
  BY <1>2, <1>3, <1>4
<1>7. \A w \in Seq(TradeRec) : FootprintRun(base, w) \in Footprints
  BY <1>2, <1>3
<1> QED BY <1>5, <1>6, <1>7

TpoRec(anchor) == [anchor : {anchor}, seen : Periods]

LEMMA TpoTradeType ==
  ASSUME NEW anchor \in Int, NEW t \in TpoRec(anchor), NEW e \in TradeRec
  PROVE  TpoTrade(t, e) \in TpoRec(anchor)
<1>1. PICK D \in FiniteSets_Int : t.seen \in [D -> SUBSET Int]
  BY DEF TpoRec, Periods
<1>2. e.px \in Int /\ e.ts \in Int /\ t.anchor = anchor
      /\ t = [anchor |-> t.anchor, seen |-> t.seen]
  BY DEF TradeRec, TpoRec
<1>3. CASE e.qty <= 0 \/ e.ts < t.anchor
  BY <1>3 DEF TpoTrade
<1>4. CASE ~(e.qty <= 0 \/ e.ts < t.anchor)
  <2> DEFINE v == Over(t.seen, e.px, {}) \cup {(e.ts - t.anchor) \div TPOPeriod}
  <2>1. v \in SUBSET Int
    <3>1. Over(t.seen, e.px, {}) \in SUBSET Int
      BY <1>1 DEF Over
    <3>2. (e.ts - t.anchor) \div TPOPeriod \in Int
      BY <1>2 DEF TPOPeriod
    <3> QED BY <3>1, <3>2
  <2>2. TpoTrade(t, e) = [t EXCEPT !.seen = With(@, e.px, v)]
    BY <1>4 DEF TpoTrade
  <2> HIDE DEF v
  <2>3. With(t.seen, e.px, v) \in [D \cup {e.px} -> SUBSET Int]
        /\ D \cup {e.px} \in FiniteSets_Int
    BY <1>1, <1>2, <2>1, WithFacts
  <2>4. With(t.seen, e.px, v) \in Periods
    BY <2>3 DEF Periods
  <2> QED BY <2>2, <2>4, <1>2 DEF TpoRec
<1> QED BY <1>3, <1>4

\* The periods of the prices, trade by trade.
TpoRun(base, w) == FoldLeft(TpoTrade, base, w)

\* The fold of a tape into a TPO.
LEMMA TpoFold ==
  ASSUME NEW anchor \in Int, NEW base \in TpoRec(anchor)
  PROVE  /\ TpoRun(base, <<>>) = base
         /\ \A w \in Seq(TradeRec) : TpoRun(base, w) \in TpoRec(anchor)
         /\ \A w \in Seq(TradeRec), e \in TradeRec :
               TpoRun(base, Append(w, e)) = TpoTrade(TpoRun(base, w), e)
<1> DEFINE F == [a \in TpoRec(anchor) |-> [x \in TradeRec |-> TpoTrade(a, x)]]
<1>1. IsStep(F, TradeRec, TpoRec(anchor)) /\ \A a \in TpoRec(anchor), x \in TradeRec : F[a][x] = TpoTrade(a, x)
  <2>1. \A a \in TpoRec(anchor), x \in TradeRec : TpoTrade(a, x) \in TpoRec(anchor)
    BY TpoTradeType
  <2> QED BY <2>1 DEF IsStep
<1> DEFINE V == TpoRec(anchor)
           A == TradeRec
<1> HIDE DEF F, V, A
<1>2. ASSUME NEW w \in Seq(TradeRec)
      PROVE  TpoRun(base, w) = RunOf(F, base, w)
  <2> DEFINE Fix(it) == it = [part \in SUBSET DOMAIN w |->
                                IF part = {} THEN base
                                ELSE LET x == Max(part) IN TpoTrade(it[part \ {x}], w[x])]
             it == CHOOSE it : Fix(it)
  <2>1. \A part \in SUBSET DOMAIN w : part # {} => w[Max(part)] \in TradeRec
    <3>1. DOMAIN w = 1..Len(w) /\ Len(w) \in Nat /\ \A k \in 1..Len(w) : w[k] \in TradeRec
      OBVIOUS
    <3> QED BY <3>1, MaxFacts
  <2>2. \E f : Fix(f)
    <3>1. PICK f : Solves(f, F, TpoRec(anchor), base, w)
      BY <1>1, FoldSolution DEF V
    <3>2. ASSUME NEW part \in SUBSET DOMAIN w, part # {}
          PROVE  f[part] = TpoTrade(f[part \ {Max(part)}], w[Max(part)])
      <4>1. f[part \ {Max(part)}] \in TpoRec(anchor) /\ f[part] = F[f[part \ {Max(part)}]][w[Max(part)]]
        BY <3>1, <3>2 DEF Solves
      <4> QED BY <4>1, <3>2, <2>1, <1>1
    <3>3. f = [part \in SUBSET DOMAIN w |-> f[part]] /\ f[{}] = base
      BY <3>1 DEF Solves
    <3> QED BY <3>2, <3>3
  <2>3. Fix(it)
    <3> HIDE DEF Fix
    <3> QED BY <2>2, Zenon
  <2>4. TpoRun(base, w) = it[DOMAIN w]
    BY DEF TpoRun, FoldLeft, MapThenFoldSet
  <2> HIDE DEF it
  <2>5. it[{}] = base
    BY <2>3
  <2>6. ASSUME NEW part \in SUBSET DOMAIN w, part # {}, it[part \ {Max(part)}] \in TpoRec(anchor)
        PROVE  it[part] = F[it[part \ {Max(part)}]][w[Max(part)]]
    BY <2>3, <2>6, <2>1, <1>1
  <2>7. it[DOMAIN w] = RunOf(F, base, w)
    <3> HIDE DEF Fix
    <3>1. IsStep(F, A, V) /\ base \in V /\ w \in Seq(A)
      BY <1>1 DEF V, A
    <3>2. StepsAlong(it, F, V, base, w)
      BY <2>5, <2>6 DEF V, StepsAlong
    <3> QED BY <3>1, <3>2, FoldIsRun
  <2> QED BY <2>4, <2>7
<1>3. /\ RunOf(F, base, <<>>) = base
      /\ \A w \in Seq(TradeRec) : RunOf(F, base, w) \in TpoRec(anchor)
      /\ \A w \in Seq(TradeRec), e \in TradeRec :
            RunOf(F, base, Append(w, e)) = F[RunOf(F, base, w)][e]
  BY <1>1, RunFacts
<1>4. <<>> \in Seq(TradeRec) /\ \A w \in Seq(TradeRec), e \in TradeRec : Append(w, e) \in Seq(TradeRec)
  OBVIOUS
<1>5. ASSUME NEW w \in Seq(TradeRec), NEW e \in TradeRec
      PROVE  TpoRun(base, Append(w, e)) = TpoTrade(TpoRun(base, w), e)
  <2>1. Append(w, e) \in Seq(TradeRec) /\ RunOf(F, base, w) \in TpoRec(anchor)
    BY <1>3, <1>4
  <2>2. /\ TpoRun(base, Append(w, e)) = RunOf(F, base, Append(w, e))
        /\ TpoRun(base, w) = RunOf(F, base, w)
    BY <2>1, <1>2
  <2>3. F[RunOf(F, base, w)][e] = TpoTrade(RunOf(F, base, w), e)
    BY <2>1, <1>1
  <2>4. RunOf(F, base, Append(w, e)) = F[RunOf(F, base, w)][e]
    BY <1>3
  <2> QED BY <2>2, <2>3, <2>4
<1>6. TpoRun(base, <<>>) = base
  BY <1>2, <1>3, <1>4
<1>7. \A w \in Seq(TradeRec) : TpoRun(base, w) \in TpoRec(anchor)
  BY <1>2, <1>3
<1> QED BY <1>5, <1>6, <1>7

-----------------------------------------------------------------------------
(* The orchestrator: the flow since the last edge. *)

\* How many elements are up to T says which of the sorted ones are.
LEMMA UpToIs ==
  ASSUME NEW S, S \subseteq Int, NEW T \in Int
  PROVE  /\ \A j : j \in UpTo(S, T) <=> j \in Int /\ j \in S /\ j <= T
         /\ \A U \in Int : T <= U => UpTo(S, T) \in SUBSET UpTo(S, U)
<1>1. \A U \in Int : \A j : j \in UpTo(S, U) <=> j \in Int /\ j \in S /\ j <= U
  BY DEF UpTo
<1>2. ASSUME NEW U \in Int, T <= U, NEW j \in UpTo(S, T) PROVE j \in UpTo(S, U)
  <2>1. j \in Int /\ j \in S /\ j <= T
    BY <1>1
  <2>2. j <= U
    BY <1>2, <2>1
  <2> QED BY <2>1, <2>2, <1>1
<1> QED BY <1>1, <1>2

\* Boundaries up to an instant are the first ones of the list.
LEMMA SortedUpTo ==
  ASSUME NEW S, S \subseteq Int, IsFiniteSet(S), NEW T \in Int
  PROVE  /\ Cardinality(UpTo(S, T)) \in 0..Len(Ascending(S))
         /\ \A n \in 1..Len(Ascending(S)) : Ascending(S)[n] <= T <=> n <= Cardinality(UpTo(S, T))
<1> DEFINE N == Len(Ascending(S))
           c == Cardinality(UpTo(S, T))
<1>1. N = Cardinality(S) /\ N \in Nat /\ DOMAIN Ascending(S) = 1..N
  <2>1. Ascending(S) \in Seq(Int) /\ Len(Ascending(S)) = Cardinality(S)
    BY SortedFacts
  <2> QED BY <2>1
<1>2. IsFiniteSet(UpTo(S, T)) /\ c <= Cardinality(S) /\ c \in Nat
  <2>1. UpTo(S, T) \in SUBSET S
    BY DEF UpTo
  <2> QED BY <2>1, FS_Subset, FS_CardinalityType
<1>3. ASSUME NEW n \in 1..N PROVE Ascending(S)[n] <= T <=> n <= c
  <2> DEFINE x == Ascending(S)[n]
  <2>1. x \in S /\ Cardinality(UpTo(S, x)) = n
    BY <1>1, SortedFacts
  <2> HIDE DEF x
  <2>2. x \in Int /\ IsFiniteSet(UpTo(S, x))
    <3>1. UpTo(S, x) \in SUBSET S
      BY DEF UpTo
    <3> QED BY <2>1, <3>1, FS_Subset
  <2>3. CASE x <= T
    <3>1. UpTo(S, x) \in SUBSET UpTo(S, T)
      BY <2>2, <2>3, UpToIs
    <3>2. Cardinality(UpTo(S, x)) <= c
      BY <3>1, <1>2, FS_Subset
    <3> QED BY <2>1, <2>3, <3>2 DEF x
  <2>4. CASE ~(x <= T)
    <3>1. UpTo(S, T) \in SUBSET UpTo(S, x) /\ x \in UpTo(S, x) /\ x \notin UpTo(S, T)
      <4>1. T <= x /\ x <= x
        BY <2>2, <2>4
      <4>2. UpTo(S, T) \in SUBSET UpTo(S, x)
        BY <2>2, <4>1, UpToIs
      <4>3. x \in UpTo(S, x)
        BY <2>1, <2>2, <4>1, UpToIs
      <4>4. x \notin UpTo(S, T)
        BY <2>4, UpToIs
      <4> QED BY <4>2, <4>3, <4>4
    <3>2. c <= n /\ c # n
      BY <3>1, <2>1, <2>2, FS_Subset
    <3> QED BY <2>4, <3>2, <1>2 DEF x
  <2> QED BY <2>3, <2>4
<1> QED BY <1>1, <1>2, <1>3

\* ... and none of them lies in between when the number is the same.
LEMMA SameUpTo ==
  ASSUME NEW S, S \subseteq Int, IsFiniteSet(S), NEW T \in Int, NEW U \in Int, T <= U
  PROVE  /\ Cardinality(UpTo(S, T)) <= Cardinality(UpTo(S, U))
         /\ Cardinality(UpTo(S, T)) = Cardinality(UpTo(S, U)) <=> \A x \in S : ~(T < x /\ x <= U)
<1>1. /\ UpTo(S, T) \in SUBSET UpTo(S, U)
      /\ UpTo(S, T) = UpTo(S, U) <=> \A x \in S : ~(T < x /\ x <= U)
  <2>1. UpTo(S, T) \in SUBSET UpTo(S, U)
    BY UpToIs
  <2>2. \A x : x \in UpTo(S, U) /\ x \notin UpTo(S, T) <=> x \in S /\ T < x /\ x <= U
    <3>1. \A x : x \in UpTo(S, U) <=> x \in Int /\ x \in S /\ x <= U
      BY UpToIs
    <3>2. \A x : x \in UpTo(S, T) <=> x \in Int /\ x \in S /\ x <= T
      BY UpToIs
    <3>3. \A x \in S : x \in Int /\ (~(x <= T) <=> T < x)
      OBVIOUS
    <3> QED BY <3>1, <3>2, <3>3
  <2> QED BY <2>1, <2>2
<1>2. IsFiniteSet(UpTo(S, U))
  <2>1. UpTo(S, U) \in SUBSET S
    BY DEF UpTo
  <2> QED BY <2>1, FS_Subset
<1> QED BY <1>1, <1>2, FS_Subset

-----------------------------------------------------------------------------
Ordered(w) == \A i, j \in DOMAIN w : i <= j => w[i].ts <= w[j].ts

\* No change of Classify after the first of two instants, up to the second.
NoEdge(from, to) == \A t \in (from + 1)..to : Classify(t) = Classify(t - 1)
\* The trades of w after the last edge, seen from its last trade.
Since(w) == {i \in DOMAIN w : NoEdge(w[i].ts, w[Len(w)].ts)}

\* The flow of the trades since the last of those changes.
FlowOf(w) == FlowRun(NoFlow, Pick(w, Since(w)))

LEMMA NoFlowType == NoFlow \in FlowRec
  BY DEF NoFlow, FlowRec

LEMMA FlowOfType ==
  ASSUME NEW w \in Seq(TradeRec)
  PROVE  FlowOf(w) \in FlowRec
<1>1. Since(w) \subseteq DOMAIN w
  BY DEF Since
<1>2. Pick(w, Since(w)) \in Seq(TradeRec)
  BY <1>1, PickFacts
<1> QED BY <1>2, NoFlowType, FlowFold DEF FlowOf

\* Picking nothing, and only the last.
LEMMA PickNone ==
  ASSUME NEW S, NEW s \in Seq(S)
  PROVE  Pick(s, {}) = <<>>
<1>1. Pick(s, {}) \in Seq(S) /\ Len(Pick(s, {})) = 0
  BY PickFacts, FS_EmptySet
<1> QED BY <1>1

LEMMA PickOne ==
  ASSUME NEW S, NEW s \in Seq(S), NEW x \in S
  PROVE  Pick(Append(s, x), {Len(s) + 1}) = <<x>>
<1>1. Pick(Append(s, x), {} \cup {Len(s) + 1}) = Append(Pick(s, {}), x)
  BY PickTakes
<1>2. Pick(s, {}) = <<>>
  BY PickNone
<1>3. Append(<<>>, x) = <<x>> /\ {} \cup {Len(s) + 1} = {Len(s) + 1}
  OBVIOUS
<1> QED BY <1>1, <1>2, <1>3

\* A trade after an edge starts the flow anew; any other adds to it.
LEMMA FlowOfAppend ==
  ASSUME NEW w \in Seq(TradeRec), NEW e \in TradeRec, Ordered(w),
         w # <<>> => w[Len(w)].ts <= e.ts
  PROVE  FlowOf(Append(w, e)) =
           FlowTrade(IF w # <<>> /\ NoEdge(w[Len(w)].ts, e.ts) THEN FlowOf(w) ELSE NoFlow, e)
<1> DEFINE n == Len(w)
           a == Append(w, e)
<1>1. /\ n \in Nat /\ a \in Seq(TradeRec) /\ Len(a) = n + 1 /\ DOMAIN a = 1..(n + 1)
      /\ a[n + 1] = e /\ \A i \in 1..n : a[i] = w[i]
      /\ DOMAIN w = 1..n /\ \A i \in 1..n : w[i].ts \in Int
      /\ e.ts \in Int
  <2>1. \A x \in TradeRec : x.ts \in Int
    BY DEF TradeRec
  <2> QED BY <2>1, AppendProperties
<1> HIDE DEF n, a
<1>2. n + 1 \in Since(a)
  <2>1. NoEdge(e.ts, e.ts)
    <3>1. (e.ts + 1)..e.ts = {}
      BY <1>1
    <3> QED BY <3>1 DEF NoEdge
  <2> QED BY <2>1, <1>1 DEF Since
<1>3. CASE w # <<>> /\ NoEdge(w[n].ts, e.ts)
  <2>1. n \in 1..n
    BY <1>1, <1>3 DEF n
  <2>2. ASSUME NEW i \in 1..n PROVE i \in Since(a) <=> i \in Since(w)
    <3>1. w[i].ts <= w[n].ts /\ w[n].ts <= e.ts
      BY <1>1, <1>3, <2>1 DEF Ordered, n
    <3>2. NoEdge(w[i].ts, e.ts) <=> NoEdge(w[i].ts, w[n].ts)
      <4>1. w[i].ts \in Int /\ w[n].ts \in Int /\ e.ts \in Int
        BY <1>1, <2>1
      <4>2. \A t : t \in (w[i].ts + 1)..e.ts <=>
                      t \in (w[i].ts + 1)..w[n].ts \/ t \in (w[n].ts + 1)..e.ts
        BY <3>1, <4>1
      <4> QED BY <4>2, <1>3 DEF NoEdge
    <3>3. i \in DOMAIN a /\ i \in DOMAIN w /\ a[i] = w[i]
      BY <1>1
    <3>4. i \in Since(a) <=> NoEdge(w[i].ts, e.ts)
      BY <3>3, <1>1 DEF Since
    <3>5. i \in Since(w) <=> NoEdge(w[i].ts, w[n].ts)
      BY <3>3 DEF Since, n
    <3> QED BY <3>2, <3>4, <3>5
  <2>3. Since(a) = Since(w) \cup {n + 1} /\ Since(w) \subseteq DOMAIN w
    <3>1. Since(a) \subseteq 1..(n + 1) /\ Since(w) \subseteq 1..n
      BY <1>1 DEF Since
    <3>2. \A i \in 1..(n + 1) : i \in 1..n \/ i = n + 1
      BY <1>1
    <3> QED BY <3>1, <3>2, <2>2, <1>1, <1>2
  <2>4. Pick(a, Since(a)) = Append(Pick(w, Since(w)), e)
    BY <2>3, PickTakes DEF a, n
  <2>5. Pick(w, Since(w)) \in Seq(TradeRec)
    BY <2>3, PickFacts
  <2>6. FlowOf(a) = FlowTrade(FlowOf(w), e)
    BY <2>4, <2>5, NoFlowType, FlowFold DEF FlowOf
  <2> QED BY <2>6, <1>3 DEF a, n
<1>4. CASE ~(w # <<>> /\ NoEdge(w[n].ts, e.ts))
  <2>1. ASSUME NEW i \in 1..n PROVE i \notin Since(a)
    <3>1. n \in 1..n /\ w # <<>>
      BY <1>1 DEF n
    <3>2. w[i].ts <= w[n].ts /\ w[i].ts \in Int /\ w[n].ts \in Int
      BY <1>1, <3>1 DEF Ordered, n
    <3>3. PICK t \in (w[n].ts + 1)..e.ts : Classify(t) # Classify(t - 1)
      BY <1>4, <3>1 DEF NoEdge
    <3>4. t \in (w[i].ts + 1)..e.ts
      BY <3>2, <1>1
    <3>5. ~NoEdge(w[i].ts, e.ts)
      BY <3>3, <3>4 DEF NoEdge
    <3> QED BY <3>5, <1>1 DEF Since
  <2>2. Since(a) = {n + 1}
    <3>1. Since(a) \subseteq 1..(n + 1)
      BY <1>1 DEF Since
    <3>2. \A i \in 1..(n + 1) : i \in 1..n \/ i = n + 1
      BY <1>1
    <3> QED BY <3>1, <3>2, <2>1, <1>2
  <2>3. Pick(a, Since(a)) = <<e>>
    BY <2>2, PickOne DEF a, n
  <2>4. PICK z : z = <<>>
    OBVIOUS
  <2>5. z \in Seq(TradeRec) /\ Append(z, e) = <<e>>
    BY <2>4
  <2>6. FlowRun(NoFlow, z) = NoFlow
    BY <2>4, NoFlowType, FlowFold
  <2>7. FlowRun(NoFlow, Append(z, e)) = FlowTrade(NoFlow, e)
    <3>1. z \in Seq(TradeRec)
      BY <2>5
    <3>2. FlowRun(NoFlow, Append(z, e)) = FlowTrade(FlowRun(NoFlow, z), e)
      BY <3>1, NoFlowType, FlowFold
    <3> QED BY <3>2, <2>6
  <2>8. FlowOf(a) = FlowTrade(NoFlow, e)
    BY <2>3, <2>5, <2>7 DEF FlowOf
  <2> QED BY <2>8, <1>4 DEF a, n
<1> QED BY <1>3, <1>4 DEF n

-----------------------------------------------------------------------------
(* The orchestrator, with the boundaries of [from, to), once it has seen w. *)

Within(w, from, to) == \A i \in DOMAIN w : from <= w[i].ts /\ w[i].ts < to
\* The orchestrator after the trades w: the boundaries it has passed are those
\* up to the last trade, and its flow is of the trades since.
IsOrch(o, from, to, w) ==
    LET seen == IF w = <<>> THEN from - 1 ELSE w[Len(w)].ts
    IN o = [bounds |-> Boundaries(from, to),
            next |-> Cardinality(UpTo(Edges(from, to), seen)) + 1,
            flow |-> IF w = <<>> THEN NoFlow ELSE FlowOf(w)]

LEMMA OrchStart ==
  ASSUME NEW from \in Int, NEW to \in Int
  PROVE  IsOrch(Orchestrator(Boundaries(from, to)), from, to, <<>>)
<1>1. UpTo(Edges(from, to), from - 1) = {}
  BY DEF UpTo, Edges
<1>2. Cardinality(UpTo(Edges(from, to), from - 1)) + 1 = 1
  BY <1>1, FS_EmptySet
<1> QED BY <1>2 DEF IsOrch, Orchestrator

\* One more trade: it resets exactly when an edge lies between the two trades.
LEMMA OrchStep ==
  ASSUME NEW from \in Int, NEW to \in Int, NEW w \in Seq(TradeRec), NEW e \in TradeRec, NEW o,
         Ordered(w), Within(w, from, to), w # <<>> => w[Len(w)].ts <= e.ts,
         from <= e.ts, e.ts < to, IsOrch(o, from, to, w)
  PROVE  IsOrch(OnFlow(o, e), from, to, Append(w, e))
<1> DEFINE S == Edges(from, to)
           b == Ascending(S)
           T == IF w = <<>> THEN from - 1 ELSE w[Len(w)].ts
           c == Cardinality(UpTo(S, T))
           d == Cardinality(UpTo(S, e.ts))
           flow == IF w = <<>> THEN NoFlow ELSE FlowOf(w)
           passed == {i \in o.next..Len(o.bounds) : \A j \in o.next..i : o.bounds[j] <= e.ts}
<1>1. S \subseteq Int /\ IsFiniteSet(S) /\ Boundaries(from, to) = b
  BY BoundariesAre
<1>2. e.ts \in Int /\ T \in Int /\ T <= e.ts /\ from - 1 <= T
  <2>1. e.ts \in Int /\ \A i \in 1..Len(w) : w[i].ts \in Int
    <3>1. \A x \in TradeRec : x.ts \in Int
      BY DEF TradeRec
    <3> QED BY <3>1
  <2>2. CASE w = <<>>
    BY <2>1, <2>2
  <2>3. CASE w # <<>>
    <3>1. Len(w) \in 1..Len(w) /\ Len(w) \in DOMAIN w
      BY <2>3
    <3>2. from <= w[Len(w)].ts /\ w[Len(w)].ts \in Int
      BY <3>1, <2>1 DEF Within
    <3> QED BY <2>1, <2>3, <3>2
  <2> QED BY <2>2, <2>3
<1>3. o = [bounds |-> b, next |-> c + 1, flow |-> flow]
  BY <1>1 DEF IsOrch
<1> HIDE DEF T
<1>4. c \in 0..Len(b) /\ d \in 0..Len(b) /\ Len(b) \in Nat /\ c <= d
      /\ \A n \in 1..Len(b) : b[n] <= e.ts <=> n <= d
  <2>1. Len(b) \in Nat
    <3> HIDE DEF S
    <3> QED BY <1>1, SortedFacts
  <2>2. c \in 0..Len(b) /\ d \in 0..Len(b)
        /\ \A n \in 1..Len(b) : b[n] <= e.ts <=> n <= d
    <3> HIDE DEF S
    <3> QED BY <1>1, <1>2, SortedUpTo
  <2>3. c <= d
    <3> HIDE DEF S
    <3> QED BY <1>1, <1>2, SameUpTo
  <2> QED BY <2>1, <2>2, <2>3
<1>5. c = d <=> NoEdge(T, e.ts)
  <2>1. c = d <=> \A x \in S : ~(T < x /\ x <= e.ts)
    <3> HIDE DEF S
    <3> QED BY <1>1, <1>2, SameUpTo
  <2>2. \A x : x \in S /\ T < x /\ x <= e.ts <=>
               x \in (T + 1)..e.ts /\ Classify(x) # Classify(x - 1)
    <3>1. \A x : x \in (T + 1)..e.ts <=> x \in Int /\ T < x /\ x <= e.ts
      BY <1>2
    <3>2. \A x \in Int : T < x /\ x <= e.ts => from <= x /\ x < to
      BY <1>2
    <3> QED BY <3>1, <3>2 DEF Edges
  <2> QED BY <2>1, <2>2 DEF NoEdge
<1> HIDE DEF S, b, c, d, flow
<1>6. passed = (c + 1)..d
  <2>1. o.next = c + 1 /\ o.bounds = b
    BY <1>3
  <2>2. \A i : i \in (c + 1)..d <=> i \in (c + 1)..Len(b) /\ i <= d
    BY <1>4
  <2>3. ASSUME NEW i \in (c + 1)..Len(b)
        PROVE  (\A j \in (c + 1)..i : b[j] <= e.ts) <=> i <= d
    <3>1. \A j \in (c + 1)..i : j \in 1..Len(b)
      BY <1>4
    <3>2. i \in (c + 1)..i /\ \A j \in (c + 1)..i : j <= i
      BY <1>4
    <3>3. i <= d => \A j \in (c + 1)..i : j <= d
      BY <1>4
    <3> QED BY <3>1, <3>2, <3>3, <1>4
  <2> QED BY <2>1, <2>2, <2>3
<1>7. Cardinality(passed) = d - c /\ (passed = {} <=> c = d)
  <2>1. Cardinality((c + 1)..d) = IF c + 1 > d THEN 0 ELSE d - (c + 1) + 1
    BY <1>4, FS_Interval
  <2>2. (c + 1)..d = {} <=> c = d
    <3>1. c # d => d \in (c + 1)..d
      BY <1>4
    <3>2. c = d => (c + 1)..d = {}
      BY <1>4
    <3> QED BY <3>1, <3>2
  <2>3. (c + 1 > d <=> c = d) /\ d - (c + 1) + 1 = d - c /\ d - d = 0
    BY <1>4
  <2> QED BY <2>1, <2>2, <2>3, <1>6
<1>8. OnFlow(o, e) = [o EXCEPT !.next = @ + Cardinality(passed),
                               !.flow = FlowTrade(IF passed = {} THEN @ ELSE NoFlow, e)]
  BY DEF OnFlow
<1> HIDE DEF passed
<1>9. OnFlow(o, e) = [bounds |-> b, next |-> d + 1,
                      flow |-> FlowTrade(IF c = d THEN flow ELSE NoFlow, e)]
  <2>1. (c + 1) + (d - c) = d + 1
    BY <1>4
  <2> QED BY <2>1, <1>3, <1>7, <1>8
<1>10. FlowOf(Append(w, e)) = FlowTrade(IF c = d THEN flow ELSE NoFlow, e)
  <2>1. FlowOf(Append(w, e)) =
          FlowTrade(IF w # <<>> /\ NoEdge(w[Len(w)].ts, e.ts) THEN FlowOf(w) ELSE NoFlow, e)
    BY FlowOfAppend
  <2>2. CASE w = <<>>
    <3>1. flow = NoFlow
      BY <2>2 DEF flow
    <3> QED BY <2>1, <2>2, <3>1
  <2>3. CASE w # <<>>
    BY <2>1, <2>3, <1>5 DEF flow, T
  <2> QED BY <2>2, <2>3
<1>11. Append(w, e) # <<>> /\ Append(w, e)[Len(Append(w, e))] = e
  BY AppendProperties
<1> QED BY <1>1, <1>9, <1>10, <1>11 DEF IsOrch, S, d

-----------------------------------------------------------------------------
(* The bars of an aggregator, and what one trade does to them. *)

\* The types of a bar and of an aggregator: at most one bar is open.
BarRec == [start : Int, end : Int, td : Int, sess : {"RTH", "ETH", "Closed"},
           open : Int, high : Int, low : Int, close : Int,
           vol : Nat, buy : Nat, sell : Nat, n : Nat]
OpenBars == {<<>>} \cup {<<b>> : b \in BarRec}
AggRec == [bars : Seq(BarRec), open : OpenBars]

\* What the label of an instant may be.
LEMMA ClassifyType ==
  ASSUME NEW t \in Int
  PROVE  Classify(t)[1] \in Int /\ Classify(t)[2] \in {"RTH", "ETH", "Closed"}
<1>1. CASE Classify(t)[2] # "Closed"
  BY <1>1, ClassifyWithin
<1>2. CASE Classify(t)[2] = "Closed"
  <2> DEFINE a == <<t \div Day, SessionAt(HoursFor(t \div Day), t)>>
             b == <<(t \div Day) + 1, SessionAt(HoursFor((t \div Day) + 1), t)>>
  <2>1. Classify(t) = FirstOpen(a, b)
    BY DEF Classify
  <2>2. a[1] \in Int /\ b[1] \in Int /\ <<NoDate, "Closed">>[1] \in Int
    BY DayOf DEF NoDate
  <2> HIDE DEF a, b
  <2>3. Classify(t)[1] \in Int
    BY <2>1, <2>2 DEF FirstOpen
  <2> QED BY <2>3, <1>2
<1> QED BY <1>1, <1>2

-----------------------------------------------------------------------------
(* Buckets of time. *)

\* A quotient rounds down.
LEMMA DivFacts ==
  ASSUME NEW x \in Int, NEW n \in Nat \ {0}
  PROVE  x \div n \in Int /\ (x \div n) * n <= x /\ x < (x \div n) * n + n
  OBVIOUS

LEMMA AddFlooredFacts ==
  ASSUME NEW a \in Int, NEW t \in Int, NEW n \in Nat \ {0}
  PROVE  /\ AddFloored(a, t, n) = a + ((t - a) \div n) * n /\ (t - a) \div n \in Int
         /\ AddFloored(a, t, n) \in Int
         /\ AddFloored(a, t, n) <= t /\ t < AddFloored(a, t, n) + n
<1> DEFINE q == (t - a) \div n
           p == q * n
<1>1. q \in Int /\ p <= t - a /\ t - a < p + n
  BY DivFacts
<1>2. p \in Int
  BY <1>1
<1>3. AddFloored(a, t, n) = a + p
  BY DEF AddFloored, FloorDiv
<1> HIDE DEF p, q
<1>4. AddFloored(a, t, n) \in Int /\ AddFloored(a, t, n) <= t /\ t < AddFloored(a, t, n) + n
  BY <1>1, <1>2, <1>3
<1> QED BY <1>1, <1>3, <1>4 DEF p, q

\* A spec New accepts.
GoodSpec(s) == s \in SpecRec /\ ValidSpec(s) /\ UtcOffset \in Int

\* A trade is in its bucket, when that is shorter than a day.
LEMMA BucketFacts ==
  ASSUME NEW s, GoodSpec(s), s.kind = "time", NEW t \in Int, Accepts(s, t)
  PROVE  /\ s.interval \in Nat \ {0} /\ BucketStart(s, t) \in Int
         /\ s.interval < Day => BucketStart(s, t) <= t /\ t < BucketStart(s, t) + s.interval
<1> DEFINE c == Classify(t)
           h == HoursFor(c[1])
           n == s.interval
<1>1. /\ n \in Nat \ {0} /\ UtcOffset \in Int
      /\ s.anchor \in {"sessionOpen", "rthOpen", "midnight", "utcEpoch"}
  BY DEF GoodSpec, SpecRec, ValidSpec
<1>2. h.rthOpen \in Int /\ h.ethOpen \in Int
  <2>1. OpenHours(c[1], h) /\ c[1] \in Int
    BY ClassifyWithin DEF Accepts, InSet
  <2> HIDE DEF c, h
  <2> QED BY <2>1 DEF OpenHours
<1>3. AnchorOf(s, t, c) \in Int
  <2>1. (t \div Day) * Day \in Int
    BY DEF Day
  <2> QED BY <1>2, <2>1 DEF AnchorOf, OpenOf
<1> HIDE DEF n
<1>4. CASE s.anchor = "utcEpoch"
  <2> DEFINE f == AddFloored(0, t + UtcOffset, n)
  <2>1. f \in Int /\ f <= t + UtcOffset /\ t + UtcOffset < f + n
    BY <1>1, AddFlooredFacts
  <2>2. BucketStart(s, t) = f - UtcOffset
    BY <1>4 DEF BucketStart, n
  <2> HIDE DEF f
  <2> QED BY <1>1, <2>1, <2>2 DEF n
<1>5. CASE s.anchor # "utcEpoch"
  <2> DEFINE a == AnchorOf(s, t, c)
             f == AddFloored(a, t, n)
  <2>1. BucketStart(s, t) = From(a, s, t)
    BY <1>5 DEF BucketStart
  <2>2. f \in Int /\ f <= t /\ t < f + n
    <3> HIDE DEF a
    <3> QED BY <1>1, <1>3, AddFlooredFacts DEF a
  <2>3. From(a, s, t) = f \/ (From(a, s, t) = a /\ n >= Day)
    BY DEF From, n
  <2> HIDE DEF f
  <2>4. n < Day => ~(n >= Day)
    BY <1>1 DEF Day
  <2> QED BY <1>1, <1>3, <2>1, <2>2, <2>3, <2>4 DEF n
<1> QED BY <1>4, <1>5

-----------------------------------------------------------------------------
(* One bar. *)

\* One trade in a bar: contracts, trades, and the range of its prices.
LEMMA ApplyTradeFacts ==
  ASSUME NEW b \in BarRec, NEW px \in Int, NEW q \in Nat, NEW side
  PROVE  LET x == ApplyTrade(b, px, q, side)
         IN /\ x \in BarRec /\ x.start = b.start /\ x.end = b.end
            /\ x.vol = b.vol + q /\ x.n = b.n + 1 /\ x.close = px
            /\ IF b.n = 0 THEN x.open = px /\ x.high = px /\ x.low = px
               ELSE /\ x.open = b.open
                    /\ x.high = (IF px > b.high THEN px ELSE b.high)
                    /\ x.low = (IF px < b.low THEN px ELSE b.low)
            /\ \A t \in Int : [x EXCEPT !.end = t] \in BarRec
<1> DEFINE x == ApplyTrade(b, px, q, side)
           op == IF b.n = 0 THEN px ELSE b.open
           hi == IF b.n = 0 \/ px > b.high THEN px ELSE b.high
           lo == IF b.n = 0 \/ px < b.low THEN px ELSE b.low
           bu == IF side = "bid" THEN b.buy + q ELSE b.buy
           se == IF side = "ask" THEN b.sell + q ELSE b.sell
           v == b.vol + q
           m == b.n + 1
<1>1. /\ op \in Int /\ hi \in Int /\ lo \in Int /\ bu \in Nat /\ se \in Nat
      /\ v \in Nat /\ m \in Nat /\ b.start \in Int /\ b.end \in Int /\ b.td \in Int
      /\ b.sess \in {"RTH", "ETH", "Closed"}
  BY DEF BarRec
<1>2. b = [start |-> b.start, end |-> b.end, td |-> b.td, sess |-> b.sess,
           open |-> b.open, high |-> b.high, low |-> b.low, close |-> b.close,
           vol |-> b.vol, buy |-> b.buy, sell |-> b.sell, n |-> b.n]
  BY DEF BarRec
<1>3. x = [b EXCEPT !.open = op, !.high = hi, !.low = lo, !.close = px, !.vol = v, !.n = m,
                    !.buy = bu, !.sell = se]
  BY DEF ApplyTrade
<1> HIDE DEF x, op, hi, lo, bu, se, v, m
<1>4. x = [start |-> b.start, end |-> b.end, td |-> b.td, sess |-> b.sess,
           open |-> op, high |-> hi, low |-> lo, close |-> px,
           vol |-> v, buy |-> bu, sell |-> se, n |-> m]
  BY <1>2, <1>3
<1>5. x \in BarRec /\ \A t \in Int : [x EXCEPT !.end = t] \in BarRec
  BY <1>1, <1>4 DEF BarRec
<1>6. /\ x.start = b.start /\ x.end = b.end /\ x.vol = v /\ x.n = m /\ x.close = px
      /\ x.open = op /\ x.high = hi /\ x.low = lo
  BY <1>4
<1> QED BY <1>5, <1>6 DEF x, op, hi, lo, v, m

\* The extremes are extremes.
Shape(b) == /\ b.n >= 1
            /\ b.low <= b.open /\ b.open <= b.high /\ b.low <= b.close /\ b.close <= b.high

LEMMA ShapeKept ==
  ASSUME NEW b \in BarRec, b.n = 0 \/ Shape(b), NEW px \in Int, NEW q \in Nat, NEW side
  PROVE  Shape(ApplyTrade(b, px, q, side))
<1> DEFINE x == ApplyTrade(b, px, q, side)
<1>1. /\ b.n \in Nat /\ b.open \in Int /\ b.high \in Int /\ b.low \in Int
  BY DEF BarRec
<1>2. /\ x.n = b.n + 1 /\ x.close = px
      /\ IF b.n = 0 THEN x.open = px /\ x.high = px /\ x.low = px
         ELSE /\ x.open = b.open
              /\ x.high = (IF px > b.high THEN px ELSE b.high)
              /\ x.low = (IF px < b.low THEN px ELSE b.low)
  BY ApplyTradeFacts
<1> HIDE DEF x
<1> QED BY <1>1, <1>2 DEF Shape, x

LEMMA EmptyBarType ==
  ASSUME NEW from \in Int, NEW to \in Int, NEW t \in Int, NEW u \in Int
  PROVE  /\ EmptyBar(from, to, Label(Classify(t), Classify(u))) \in BarRec
         /\ BarAt(t) \in BarRec /\ BarAt(t).n = 0 /\ BarAt(t).vol = 0
<1>1. \A c : c[1] \in Int /\ c[2] \in {"RTH", "ETH", "Closed"} =>
               /\ EmptyBar(from, to, c) \in BarRec
               /\ EmptyBar(t, t, c) \in BarRec
               /\ EmptyBar(t, t, c).n = 0 /\ EmptyBar(t, t, c).vol = 0
  BY DEF EmptyBar, BarRec
<1>2. Label(Classify(t), Classify(u)) \in {Classify(t), Classify(u)}
  BY DEF Label
<1> QED BY <1>1, <1>2, ClassifyType DEF BarAt

-----------------------------------------------------------------------------
(* The bars of an aggregator. *)

\* What holds of a closed bar, and of the open one.
ClosedBar(s, b) ==
    /\ b \in BarRec /\ Shape(b)
    /\ s.kind = "tick" => b.n = s.count
    /\ s.kind = "volume" => b.vol = s.count
    /\ s.kind = "range" => b.high - b.low <= s.band
\* The open bar is below the bound of its kind.
OpenBar(s, b) ==
    /\ b \in BarRec /\ Shape(b)
    /\ s.kind = "tick" => b.n < s.count
    /\ s.kind = "volume" => 0 < b.vol /\ b.vol < s.count
    /\ s.kind = "range" => b.high - b.low <= s.band
\* What an aggregator of spec s keeps: closed bars are at their bound, the open
\* one below it, and a time aggregator with bars has one open.
GoodBars(s, a) ==
    /\ a \in AggRec
    /\ \A k \in DOMAIN a.bars : ClosedBar(s, a.bars[k])
    /\ a.open # <<>> => OpenBar(s, a.open[1])
    /\ s.kind = "time" /\ a.open = <<>> => a.bars = <<>>

LEMMA AggIs ==
  ASSUME NEW a \in AggRec
  PROVE  /\ a = [bars |-> a.bars, open |-> a.open] /\ a.bars \in Seq(BarRec)
         /\ a.open \in OpenBars
         /\ a.open = <<>> \/ (a.open = <<a.open[1]>> /\ a.open # <<>> /\ a.open[1] \in BarRec)
<1>1. \A b : <<b>> # <<>> /\ <<b>>[1] = b
  OBVIOUS
<1> QED BY <1>1 DEF AggRec, OpenBars

\* The bars a sink is given: the closed ones and the open one after them.
LEMMA SnapshotIs ==
  ASSUME NEW a \in AggRec
  PROVE  /\ Snapshot(a) \in Seq(BarRec)
         /\ a.open = <<>> => Snapshot(a) = a.bars
         /\ a.open # <<>> => Snapshot(a) = Append(a.bars, a.open[1])
         /\ FlushBars(a) = [bars |-> Snapshot(a), open |-> <<>>]
         /\ FlushBars(a) \in AggRec /\ Snapshot(FlushBars(a)) = Snapshot(a)
<1>1. \A z \in Seq(BarRec) : z \o <<>> = z
  OBVIOUS
<1>2. \A z \in Seq(BarRec), b \in BarRec : z \o <<b>> = Append(z, b) /\ Append(z, b) \in Seq(BarRec)
  OBVIOUS
<1>3. a.open # <<>> => Snapshot(a) = Append(a.bars, a.open[1])
  <2> SUFFICES ASSUME a.open # <<>> PROVE Snapshot(a) = Append(a.bars, a.open[1])
    OBVIOUS
  <2>1. PICK b \in BarRec : a.open = <<b>> /\ a.open[1] = b
    BY AggIs
  <2> QED BY <2>1, <1>2, AggIs DEF Snapshot
<1>4. a.open = <<>> => Snapshot(a) = a.bars
  BY <1>1, AggIs DEF Snapshot
<1>5. Snapshot(a) \in Seq(BarRec)
  BY <1>2, <1>3, <1>4, AggIs
<1>6. FlushBars(a) = [bars |-> Snapshot(a), open |-> <<>>]
  BY DEF FlushBars, Snapshot
<1>7. FlushBars(a) \in AggRec
  BY <1>5, <1>6 DEF AggRec, OpenBars
<1>8. Snapshot(FlushBars(a)) = Snapshot(a)
  <2> DEFINE f == FlushBars(a)
  <2>1. f.bars = Snapshot(a) /\ f.open = <<>>
    BY <1>6
  <2>2. Snapshot(f) = f.bars \o f.open
    BY DEF Snapshot
  <2> QED BY <2>1, <2>2, <1>1, <1>5
<1> QED BY <1>3, <1>4, <1>5, <1>6, <1>7, <1>8

\* q more contracts in the last bar, or in one new bar.
Extends(S, T, q) ==
    /\ S # <<>> /\ Len(T) = Len(S) /\ \A k \in 1..(Len(S) - 1) : T[k] = S[k]
    /\ T[Len(S)].vol = S[Len(S)].vol + q /\ T[Len(S)].n = S[Len(S)].n + 1
    /\ T[Len(S)].start = S[Len(S)].start
Adds(S, T, q) ==
    /\ Len(T) = Len(S) + 1 /\ \A k \in 1..Len(S) : T[k] = S[k]
    /\ T[Len(S) + 1].vol = q /\ T[Len(S) + 1].n = 1

\* A sequence with one element more.
LEMMA AppendIs ==
  ASSUME NEW A, NEW w \in Seq(A), NEW x \in A
  PROVE  /\ Append(w, x) \in Seq(A) /\ Append(w, x) # <<>> /\ Len(w) \in Nat
         /\ Len(Append(w, x)) = Len(w) + 1 /\ Append(w, x)[Len(w) + 1] = x
         /\ \A k \in 1..Len(w) : Append(w, x)[k] = w[k]
         /\ DOMAIN w = 1..Len(w) /\ DOMAIN Append(w, x) = 1..(Len(w) + 1)
  BY AppendProperties

\* Another open bar, in place of the last or after it.
LEMMA SnapshotGrows ==
  ASSUME NEW a \in AggRec, NEW b \in BarRec, NEW q \in Nat,
         NEW x, x = [bars |-> a.bars, open |-> <<b>>]
  PROVE  /\ x \in AggRec /\ Snapshot(x) = Append(a.bars, b)
         /\ a.open = <<>> /\ b.vol = q /\ b.n = 1 => Adds(Snapshot(a), Snapshot(x), q)
         /\ a.open # <<>> /\ b.vol = a.open[1].vol + q /\ b.n = a.open[1].n + 1
              /\ b.start = a.open[1].start => Extends(Snapshot(a), Snapshot(x), q)
<1>1. a.bars \in Seq(BarRec)
  BY AggIs
<1>2. x \in AggRec /\ x.bars = a.bars /\ x.open = <<b>> /\ x.open # <<>> /\ x.open[1] = b
  BY <1>1 DEF AggRec, OpenBars
<1>3. Snapshot(x) = Append(a.bars, b)
  BY <1>2, SnapshotIs
<1>4. ASSUME a.open = <<>>, b.vol = q, b.n = 1 PROVE Adds(Snapshot(a), Snapshot(x), q)
  <2>1. Snapshot(a) = a.bars
    BY <1>4, SnapshotIs
  <2> DEFINE S == a.bars
             T == Append(S, b)
  <2>2. /\ Len(T) = Len(S) + 1 /\ T[Len(S) + 1] = b /\ \A k \in 1..Len(S) : T[k] = S[k]
    BY <1>1, AppendIs
  <2> HIDE DEF T
  <2>3. Adds(S, T, q)
    BY <2>2, <1>4 DEF Adds
  <2> QED BY <2>1, <2>3, <1>3 DEF T
<1>5. ASSUME a.open # <<>>, b.vol = a.open[1].vol + q, b.n = a.open[1].n + 1,
             b.start = a.open[1].start
      PROVE  Extends(Snapshot(a), Snapshot(x), q)
  <2>1. Snapshot(a) = Append(a.bars, a.open[1]) /\ a.open[1] \in BarRec
    BY <1>5, SnapshotIs, AggIs
  <2> DEFINE S == Append(a.bars, a.open[1])
             T == Append(a.bars, b)
             n == Len(a.bars)
  <2>2. /\ n \in Nat /\ Len(S) = n + 1 /\ S[n + 1] = a.open[1] /\ S # <<>>
        /\ \A k \in 1..n : S[k] = a.bars[k]
    BY <1>1, <2>1, AppendIs
  <2>3. Len(T) = n + 1 /\ T[n + 1] = b /\ \A k \in 1..n : T[k] = a.bars[k]
    BY <1>1, AppendIs
  <2> HIDE DEF S, T, n
  <2>4. (n + 1) - 1 = n
    BY <2>2
  <2>5. Extends(S, T, q)
    BY <2>2, <2>3, <2>4, <1>5 DEF Extends
  <2> QED BY <2>1, <2>5, <1>3 DEF S, T
<1> QED BY <1>2, <1>3, <1>4, <1>5

\* The contracts of each bar.
Vols(S) == [k \in DOMAIN S |-> S[k].vol]

LEMMA VolsType ==
  ASSUME NEW S \in Seq(BarRec)
  PROVE  Vols(S) \in Seq(Int) /\ Len(Vols(S)) = Len(S)
<1>1. Len(S) \in Nat /\ DOMAIN S = 1..Len(S) /\ \A k \in 1..Len(S) : S[k] \in BarRec
  OBVIOUS
<1>2. \A b \in BarRec : b.vol \in Int
  BY DEF BarRec
<1>3. Vols(S) \in [1..Len(S) -> Int]
  BY <1>1, <1>2 DEF Vols
<1> QED BY <1>1, <1>3

LEMMA VolsAppend ==
  ASSUME NEW S \in Seq(BarRec), NEW b \in BarRec
  PROVE  /\ Vols(S) \in Seq(Int) /\ Len(Vols(S)) = Len(S)
         /\ Vols(Append(S, b)) = Append(Vols(S), b.vol)
         /\ Total(Vols(Append(S, b))) = Total(Vols(S)) + b.vol
<1>1. \A x \in BarRec : x.vol \in Int
  BY DEF BarRec
<1>2. /\ Append(S, b) \in Seq(BarRec) /\ Len(S) \in Nat
      /\ DOMAIN S = 1..Len(S) /\ DOMAIN Append(S, b) = 1..(Len(S) + 1)
      /\ Append(S, b)[Len(S) + 1] = b /\ \A k \in 1..Len(S) : Append(S, b)[k] = S[k]
      /\ \A k \in 1..Len(S) : S[k] \in BarRec
  <2>1. \A k \in 1..Len(S) : S[k] \in BarRec
    OBVIOUS
  <2> QED BY <2>1, AppendIs
<1>3. Vols(S) \in Seq(Int) /\ Len(Vols(S)) = Len(S)
  <2>1. Vols(S) = [k \in 1..Len(S) |-> S[k].vol]
    BY <1>2 DEF Vols
  <2>2. \A k \in 1..Len(S) : S[k].vol \in Int
    BY <1>1, <1>2
  <2> QED BY <2>1, <2>2, <1>2
<1>4. Vols(Append(S, b)) = Append(Vols(S), b.vol)
  <2>1. Append(Vols(S), b.vol) =
          [k \in 1..(Len(S) + 1) |-> IF k = Len(S) + 1 THEN b.vol ELSE Vols(S)[k]]
    BY <1>3, AppendDef
  <2>2. Vols(Append(S, b)) = [k \in 1..(Len(S) + 1) |-> Append(S, b)[k].vol]
    BY <1>2 DEF Vols
  <2>3. \A k \in 1..(Len(S) + 1) : Append(S, b)[k].vol =
                                      IF k = Len(S) + 1 THEN b.vol ELSE Vols(S)[k]
    <3>1. \A k \in 1..Len(S) : Vols(S)[k] = S[k].vol
      BY <1>2 DEF Vols
    <3>2. \A k \in 1..(Len(S) + 1) : k = Len(S) + 1 \/ (k \in 1..Len(S) /\ k # Len(S) + 1)
      BY <1>2
    <3> QED BY <3>1, <3>2, <1>2
  <2> QED BY <2>1, <2>2, <2>3
<1> QED BY <1>1, <1>3, <1>4, TotalAppend

\* Every way to split a sequence into its last element and the rest.
LEMMA FrontLast ==
  ASSUME NEW A, NEW w \in Seq(A), w # <<>>
  PROVE  \E u \in Seq(A), x \in A : w = Append(u, x)
<1> DEFINE S == {v \in Seq(A) : v # <<>> => \E u \in Seq(A), x \in A : v = Append(u, x)}
<1>1. <<>> \in S
  OBVIOUS
<1>2. \A v \in Seq(A), x \in A : Append(v, x) \in S
  BY AppendIs
<1>3. \A v \in Seq(A) : v \in S
  <2> HIDE DEF S
  <2> QED BY <1>1, <1>2, SeqInduction
<1> QED BY <1>3

\* Whichever way it grows, the volume is q more.
LEMMA VolumeGrows ==
  ASSUME NEW S \in Seq(BarRec), NEW T \in Seq(BarRec), NEW q \in Nat,
         Extends(S, T, q) \/ Adds(S, T, q)
  PROVE  Total(Vols(T)) = Total(Vols(S)) + q
<1>1. T # <<>>
  BY DEF Extends, Adds
<1>2. PICK v \in Seq(BarRec), y \in BarRec : T = Append(v, y)
  BY <1>1, FrontLast
<1>3. /\ Len(v) \in Nat /\ Len(T) = Len(v) + 1 /\ T[Len(v) + 1] = y
      /\ \A k \in 1..Len(v) : T[k] = v[k]
  BY <1>2, AppendIs
<1>4. Total(Vols(T)) = Total(Vols(v)) + y.vol
  BY <1>2, VolsAppend
<1>5. Total(Vols(v)) \in Int /\ y.vol \in Int
  <2>1. Vols(v) \in Seq(Int)
    BY VolsAppend
  <2> QED BY <2>1, TotalType DEF BarRec
<1>6. CASE Adds(S, T, q)
  <2>1. Len(S) = Len(v) /\ y.vol = q /\ \A k \in 1..Len(S) : v[k] = S[k]
    BY <1>3, <1>6 DEF Adds
  <2>2. v = S
    BY <2>1
  <2> QED BY <2>1, <2>2, <1>4
<1>7. CASE Extends(S, T, q)
  <2>1. PICK u \in Seq(BarRec), x \in BarRec : S = Append(u, x)
    BY <1>7, FrontLast DEF Extends
  <2>2. /\ Len(u) \in Nat /\ Len(S) = Len(u) + 1 /\ S[Len(u) + 1] = x
        /\ \A k \in 1..Len(u) : S[k] = u[k]
    BY <2>1, AppendIs
  <2>3. Len(u) = Len(v) /\ Len(S) - 1 = Len(u)
    BY <2>2, <1>3, <1>7 DEF Extends
  <2>4. y.vol = x.vol + q /\ \A k \in 1..Len(u) : v[k] = u[k]
    BY <2>2, <2>3, <1>3, <1>7 DEF Extends
  <2>5. u = v
    BY <2>3, <2>4
  <2>6. Total(Vols(S)) = Total(Vols(u)) + x.vol /\ x.vol \in Int
    <3>1. Total(Vols(S)) = Total(Vols(u)) + x.vol
      BY <2>1, VolsAppend
    <3> QED BY <3>1 DEF BarRec
  <2> QED BY <2>4, <2>5, <2>6, <1>4, <1>5
<1> QED BY <1>6, <1>7

\* Contracts the open volume bar still takes.
Room(s, a) == s.count - (IF a.open = <<>> THEN 0 ELSE a.open[1].vol)
TradeOk(e, q) == e.ts \in Int /\ e.px \in Int /\ q \in Nat

\* Put: the bar it leaves open.
LEMMA PutFacts ==
  ASSUME NEW a \in AggRec, a.open # <<>> => Shape(a.open[1]), NEW e, NEW q, TradeOk(e, q)
  PROVE  LET x == Put(a, e, q)
             b == x.open[1]
         IN /\ x = [bars |-> a.bars, open |-> <<b>>] /\ x \in AggRec /\ x.bars = a.bars
            /\ x.open # <<>> /\ b \in BarRec /\ Shape(b)
            /\ Snapshot(x) \in Seq(BarRec)
            /\ IF a.open = <<>>
               THEN /\ Adds(Snapshot(a), Snapshot(x), q)
                    /\ b.vol = q /\ b.n = 1 /\ b.high = e.px /\ b.low = e.px
               ELSE /\ Extends(Snapshot(a), Snapshot(x), q)
                    /\ b.vol = a.open[1].vol + q /\ b.n = a.open[1].n + 1
                    /\ b.high = (IF e.px > a.open[1].high THEN e.px ELSE a.open[1].high)
                    /\ b.low = (IF e.px < a.open[1].low THEN e.px ELSE a.open[1].low)
<1> DEFINE c == IF a.open = <<>> THEN BarAt(e.ts) ELSE a.open[1]
           d == ApplyTrade(c, e.px, q, e.side)
           b == [d EXCEPT !.end = e.ts]
           x == Put(a, e, q)
<1>1. c \in BarRec /\ (c.n = 0 \/ Shape(c)) /\ e.ts \in Int /\ e.px \in Int /\ q \in Nat
      /\ (a.open = <<>> => c.n = 0 /\ c.vol = 0)
  BY EmptyBarType, AggIs DEF TradeOk
<1>2. a = [bars |-> a.bars, open |-> a.open]
  BY AggIs
<1>3. x = [a EXCEPT !.open = <<b>>]
  BY DEF Put
<1> HIDE DEF c, b
<1>4. x = [bars |-> a.bars, open |-> <<b>>] /\ x.open[1] = b /\ x.bars = a.bars /\ x.open # <<>>
  BY <1>2, <1>3
<1>5. /\ d \in BarRec /\ b \in BarRec /\ d.start = c.start
      /\ d.vol = c.vol + q /\ d.n = c.n + 1 /\ d.close = e.px
      /\ IF c.n = 0 THEN d.open = e.px /\ d.high = e.px /\ d.low = e.px
         ELSE /\ d.open = c.open
              /\ d.high = (IF e.px > c.high THEN e.px ELSE c.high)
              /\ d.low = (IF e.px < c.low THEN e.px ELSE c.low)
  BY <1>1, ApplyTradeFacts DEF b
<1>6. Shape(d)
  BY <1>1, ShapeKept
<1> HIDE DEF d, x
<1>7. /\ b.start = d.start /\ b.vol = d.vol /\ b.n = d.n /\ b.open = d.open /\ b.high = d.high
      /\ b.low = d.low /\ b.close = d.close
  BY <1>5 DEF b, BarRec
<1>8. Shape(b)
  BY <1>6, <1>7 DEF Shape
<1>9. x \in AggRec /\ Snapshot(x) \in Seq(BarRec)
  <2>1. x \in AggRec
    BY <1>4, <1>5, AggIs DEF AggRec, OpenBars
  <2> QED BY <2>1, SnapshotIs
<1>10. CASE a.open = <<>>
  <2>1. b.vol = q /\ b.n = 1 /\ b.high = e.px /\ b.low = e.px
    BY <1>1, <1>5, <1>7, <1>10
  <2>2. Adds(Snapshot(a), Snapshot(x), q)
    BY <2>1, <1>1, <1>4, <1>5, <1>10, SnapshotGrows
  <2> QED BY <2>1, <2>2, <1>4, <1>5, <1>8, <1>9, <1>10 DEF x
<1>11. CASE a.open # <<>>
  <2>1. c = a.open[1] /\ Shape(c) /\ c.n \in Nat
    BY <1>1, <1>11 DEF c, BarRec
  <2>2. ~(c.n = 0)
    BY <2>1 DEF Shape
  <2>3. /\ b.vol = c.vol + q /\ b.n = c.n + 1 /\ b.start = c.start
        /\ b.high = (IF e.px > c.high THEN e.px ELSE c.high)
        /\ b.low = (IF e.px < c.low THEN e.px ELSE c.low)
    BY <2>2, <1>5, <1>7
  <2>4. Extends(Snapshot(a), Snapshot(x), q)
    BY <2>1, <2>3, <1>1, <1>4, <1>5, <1>11, SnapshotGrows
  <2> QED BY <2>1, <2>3, <2>4, <1>4, <1>5, <1>8, <1>9, <1>11 DEF x
<1> QED BY <1>10, <1>11

\* Tick and volume bars: a quantity that fits the open bar goes into it.
LEMMA TakeStep ==
  ASSUME NEW s, GoodSpec(s), s.kind \in {"tick", "volume"}, NEW a, GoodBars(s, a),
         NEW e, NEW q, TradeOk(e, q),
         s.kind = "volume" => 0 < q /\ q <= Room(s, a)
  PROVE  LET x == FlushFull(s, Put(a, e, q))
         IN /\ GoodBars(s, x) /\ Snapshot(a) \in Seq(BarRec) /\ Snapshot(x) \in Seq(BarRec)
            /\ Extends(Snapshot(a), Snapshot(x), q) \/ Adds(Snapshot(a), Snapshot(x), q)
            /\ s.kind = "volume" => /\ q = Room(s, a) => x.open = <<>>
                                    /\ q < Room(s, a) => Room(s, x) = Room(s, a) - q
<1> DEFINE p == Put(a, e, q)
           b == p.open[1]
           x == FlushFull(s, p)
<1>1. /\ a \in AggRec /\ (a.open # <<>> => OpenBar(s, a.open[1]))
      /\ \A k \in DOMAIN a.bars : ClosedBar(s, a.bars[k])
      /\ s.count \in Nat /\ s.count > 0 /\ q \in Nat
  BY DEF GoodBars, GoodSpec, SpecRec, ValidSpec, TradeOk
<1>2. /\ p = [bars |-> a.bars, open |-> <<b>>] /\ p \in AggRec /\ p.bars = a.bars
      /\ p.open # <<>> /\ b \in BarRec /\ Shape(b) /\ Snapshot(p) \in Seq(BarRec)
      /\ Extends(Snapshot(a), Snapshot(p), q) \/ Adds(Snapshot(a), Snapshot(p), q)
      /\ b.vol = (IF a.open = <<>> THEN 0 ELSE a.open[1].vol) + q
      /\ b.n = (IF a.open = <<>> THEN 0 ELSE a.open[1].n) + 1
  <2>1. a.open # <<>> => Shape(a.open[1])
    BY <1>1 DEF OpenBar
  <2> QED BY <2>1, <1>1, PutFacts
<1>3. x = IF Full(s, b) THEN FlushBars(p) ELSE p
  BY DEF FlushFull
<1>4. Full(s, b) <=> (IF s.kind = "tick" THEN b.n ELSE b.vol) >= s.count
  BY DEF Full
<1> HIDE DEF p, b, x
<1>5. /\ s.kind = "tick" => b.n <= s.count
      /\ s.kind = "volume" => 0 < b.vol /\ b.vol <= s.count
      /\ b.n \in Nat /\ b.vol \in Nat
      /\ s.kind = "volume" => b.vol = s.count - Room(s, a) + q /\ Room(s, a) \in Int
  <2>1. b.n \in Nat /\ b.vol \in Nat
    BY <1>2 DEF BarRec
  <2>2. a.open # <<>> => a.open[1].n \in Nat /\ a.open[1].vol \in Nat
    BY <1>1, AggIs DEF BarRec
  <2> QED BY SMTT(30), <2>1, <2>2, <1>1, <1>2 DEF OpenBar, Room
<1>6. /\ s.kind # "range" /\ s.kind # "time"
      /\ (s.kind = "tick" /\ s.kind # "volume") \/ (s.kind = "volume" /\ s.kind # "tick")
  OBVIOUS
<1>7. CASE Full(s, b)
  <2>1. /\ x = FlushBars(p) /\ x = [bars |-> Snapshot(p), open |-> <<>>] /\ x \in AggRec
        /\ Snapshot(x) = Snapshot(p) /\ Snapshot(p) = Append(a.bars, b)
    BY <1>2, <1>3, <1>7, SnapshotIs
  <2>2. ClosedBar(s, b)
    BY <1>1, <1>2, <1>4, <1>5, <1>6, <1>7 DEF ClosedBar
  <2>3. ASSUME NEW k \in DOMAIN Snapshot(p) PROVE ClosedBar(s, Snapshot(p)[k])
    <3>1. a.bars \in Seq(BarRec)
      BY <1>1, AggIs
    <3>2. /\ Len(a.bars) \in Nat /\ DOMAIN Snapshot(p) = 1..(Len(a.bars) + 1)
          /\ Snapshot(p)[Len(a.bars) + 1] = b
          /\ \A j \in 1..Len(a.bars) : Snapshot(p)[j] = a.bars[j]
          /\ DOMAIN a.bars = 1..Len(a.bars)
      BY <3>1, <2>1, <1>2, AppendIs
    <3>3. CASE k = Len(a.bars) + 1
      BY <3>2, <3>3, <2>2
    <3>4. CASE k # Len(a.bars) + 1
      <4>1. k \in 1..Len(a.bars)
        BY <3>2, <3>4
      <4> QED BY <4>1, <3>2, <1>1
    <3> QED BY <3>3, <3>4
  <2>4. GoodBars(s, x)
    BY <2>1, <2>3, <1>6 DEF GoodBars
  <2>5. s.kind = "volume" => q = Room(s, a)
    BY <1>1, <1>4, <1>5, <1>7
  <2>6. x.open = <<>> /\ Snapshot(a) \in Seq(BarRec)
    BY <2>1, <1>1, SnapshotIs
  <2>7. s.kind = "volume" => ~(q < Room(s, a))
    BY <2>5, <1>1, <1>5
  <2> QED BY <2>1, <2>4, <2>6, <2>7, <1>2 DEF x, p
<1>8. CASE ~Full(s, b)
  <2>1. x = p
    BY <1>3, <1>8
  <2>2. OpenBar(s, b)
    <3>1. s.kind = "tick" => b.n < s.count
      BY <1>1, <1>4, <1>5, <1>8
    <3>2. s.kind = "volume" => 0 < b.vol /\ b.vol < s.count
      BY <1>1, <1>4, <1>5, <1>6, <1>8
    <3> QED BY <3>1, <3>2, <1>2, <1>6 DEF OpenBar
  <2>3. GoodBars(s, x)
    BY <2>1, <2>2, <1>1, <1>2 DEF GoodBars, b
  <2>4. s.kind = "volume" => q # Room(s, a) /\ Room(s, x) = Room(s, a) - q
    <3>1. s.kind = "volume" => Room(s, x) = s.count - b.vol
      BY <2>1, <1>2 DEF Room, b
    <3> QED BY <3>1, <1>1, <1>4, <1>5, <1>6, <1>8
  <2>5. Snapshot(a) \in Seq(BarRec)
    BY <1>1, SnapshotIs
  <2> QED BY <2>1, <2>3, <2>4, <2>5, <1>2 DEF x, p
<1> QED BY <1>7, <1>8

\* The greater and the smaller of two integers.
LEMMA TwoExtremes ==
  ASSUME NEW x \in Int, NEW y \in Int
  PROVE  /\ Max({x, y}) = IF x > y THEN x ELSE y
         /\ Min({x, y}) = IF x < y THEN x ELSE y
<1>1. {x, y} \subseteq Int /\ {x, y} # {} /\ IsFiniteSet({x, y})
  <2>1. IsFiniteSet({x}) /\ {x, y} = {x} \cup {y}
    BY FS_Singleton
  <2>2. IsFiniteSet({x} \cup {y})
    BY <2>1, FS_AddElement
  <2> QED BY <2>1, <2>2
<1>2. /\ Max({x, y}) \in {x, y} /\ \A z \in {x, y} : z <= Max({x, y})
      /\ Min({x, y}) \in {x, y} /\ \A z \in {x, y} : Min({x, y}) <= z
  BY <1>1, Extremes
<1> QED BY <1>2

\* Closing the open range or time bar leaves good bars.
LEMMA Flushed ==
  ASSUME NEW s, s.kind \in {"range", "time"}, NEW a, GoodBars(s, a)
  PROVE  \A k \in DOMAIN Snapshot(a) : ClosedBar(s, Snapshot(a)[k])
<1>1. a \in AggRec /\ a.bars \in Seq(BarRec) /\ \A k \in DOMAIN a.bars : ClosedBar(s, a.bars[k])
  BY AggIs DEF GoodBars
<1>2. CASE a.open = <<>>
  BY <1>1, <1>2, SnapshotIs
<1>3. CASE a.open # <<>>
  <2>1. a.open[1] \in BarRec /\ Snapshot(a) = Append(a.bars, a.open[1])
    BY <1>1, <1>3, AggIs, SnapshotIs
  <2>2. ClosedBar(s, a.open[1])
    <3>1. s.kind # "tick" /\ s.kind # "volume"
      OBVIOUS
    <3> QED BY <1>3, <3>1 DEF GoodBars, OpenBar, ClosedBar
  <2>3. /\ Len(a.bars) \in Nat /\ DOMAIN Snapshot(a) = 1..(Len(a.bars) + 1)
        /\ Snapshot(a)[Len(a.bars) + 1] = a.open[1]
        /\ \A j \in 1..Len(a.bars) : Snapshot(a)[j] = a.bars[j]
        /\ DOMAIN a.bars = 1..Len(a.bars)
    BY <1>1, <2>1, AppendIs
  <2> SUFFICES ASSUME NEW k \in DOMAIN Snapshot(a) PROVE ClosedBar(s, Snapshot(a)[k])
    OBVIOUS
  <2>4. k = Len(a.bars) + 1 \/ k \in 1..Len(a.bars)
    BY <2>3
  <2> QED BY <2>2, <2>3, <2>4, <1>1
<1> QED BY <1>2, <1>3

Grown(s, a, x, q) ==
    /\ GoodBars(s, x) /\ Snapshot(a) \in Seq(BarRec) /\ Snapshot(x) \in Seq(BarRec)
    /\ Extends(Snapshot(a), Snapshot(x), q) \/ Adds(Snapshot(a), Snapshot(x), q)

\* A trade in a range bar, or in a new one when it would stretch it too far.
LEMMA RangeStep ==
  ASSUME NEW s, GoodSpec(s), s.kind = "range", NEW a, GoodBars(s, a), NEW e \in TradeRec
  PROVE  Grown(s, a, AddRange(s, a, e), e.qty)
<1> DEFINE past == a.open # <<>> /\ RangeExceeds(a.open[1], e.px, s.band)
           z == IF past THEN FlushBars(a) ELSE a
           x == Put(z, e, e.qty)
           b == x.open[1]
<1>1. AddRange(s, a, e) = x
  BY DEF AddRange
<1>2. TradeOk(e, e.qty) /\ s.band \in Nat /\ e.px \in Int
  BY DEF TradeOk, TradeRec, GoodSpec, SpecRec
<1>3. a \in AggRec /\ Snapshot(a) \in Seq(BarRec)
  BY SnapshotIs DEF GoodBars
<1>4. /\ z \in AggRec /\ Snapshot(z) = Snapshot(a)
      /\ \A k \in DOMAIN z.bars : ClosedBar(s, z.bars[k])
      /\ z.open # <<>> => z = a /\ a.open # <<>> /\ ~RangeExceeds(a.open[1], e.px, s.band)
  <2>1. CASE past
    <3>1. FlushBars(a) = [bars |-> Snapshot(a), open |-> <<>>] /\ FlushBars(a) \in AggRec
          /\ Snapshot(FlushBars(a)) = Snapshot(a)
      BY <1>3, SnapshotIs
    <3> QED BY <2>1, <3>1, Flushed
  <2>2. CASE ~past
    BY <2>2, <1>3 DEF GoodBars
  <2> QED BY <2>1, <2>2
<1>5. z.open # <<>> => OpenBar(s, z.open[1])
  BY <1>4 DEF GoodBars
<1> HIDE DEF z, past
<1>6. /\ x = [bars |-> z.bars, open |-> <<b>>] /\ x \in AggRec /\ x.bars = z.bars
      /\ x.open # <<>> /\ b \in BarRec /\ Shape(b) /\ Snapshot(x) \in Seq(BarRec)
      /\ Extends(Snapshot(z), Snapshot(x), e.qty) \/ Adds(Snapshot(z), Snapshot(x), e.qty)
      /\ IF z.open = <<>> THEN b.high = e.px /\ b.low = e.px
         ELSE /\ b.high = (IF e.px > z.open[1].high THEN e.px ELSE z.open[1].high)
              /\ b.low = (IF e.px < z.open[1].low THEN e.px ELSE z.open[1].low)
  <2>1. z.open # <<>> => Shape(z.open[1])
    BY <1>5 DEF OpenBar
  <2> QED BY <2>1, <1>2, <1>4, PutFacts
<1> HIDE DEF x, b
<1>7. b.high - b.low <= s.band
  <2>1. CASE z.open = <<>>
    BY <2>1, <1>2, <1>6
  <2>2. CASE z.open # <<>>
    <3> DEFINE o == z.open[1]
    <3>1. o.high \in Int /\ o.low \in Int /\ ~RangeExceeds(o, e.px, s.band)
      <4>1. OpenBar(s, o) /\ ~RangeExceeds(o, e.px, s.band)
        BY <1>4, <1>5, <2>2
      <4> QED BY <4>1 DEF OpenBar, BarRec
    <3>2. ~(Max({o.high, e.px}) - Min({o.low, e.px}) > s.band)
      BY <3>1 DEF RangeExceeds
    <3>3. Max({o.high, e.px}) = (IF e.px > o.high THEN e.px ELSE o.high)
          /\ Min({o.low, e.px}) = (IF e.px < o.low THEN e.px ELSE o.low)
      <4> DEFINE u == o.high
                 l == o.low
                 p == e.px
      <4> HIDE DEF u, l, p, o
      <4>1. u \in Int /\ l \in Int /\ p \in Int
        BY <3>1, <1>2 DEF u, l, p
      <4>2. Max({u, p}) = (IF u > p THEN u ELSE p) /\ Min({l, p}) = (IF l < p THEN l ELSE p)
        BY <4>1, TwoExtremes
      <4>3. Max({u, p}) = (IF p > u THEN p ELSE u) /\ Min({l, p}) = (IF p < l THEN p ELSE l)
        BY <4>1, <4>2
      <4> QED BY <4>3 DEF u, l, p
    <3>4. b.high = Max({o.high, e.px}) /\ b.low = Min({o.low, e.px})
      BY <1>6, <2>2, <3>3
    <3>5. b.high \in Int /\ b.low \in Int
      BY <1>6 DEF BarRec
    <3> QED BY <1>2, <3>2, <3>4, <3>5
  <2> QED BY <2>1, <2>2
<1>8. OpenBar(s, b) /\ b = x.open[1]
  BY <1>6, <1>7 DEF OpenBar, b
<1>9. GoodBars(s, x)
  BY <1>4, <1>6, <1>8 DEF GoodBars
<1> QED BY <1>1, <1>3, <1>4, <1>6, <1>9 DEF Grown

\* A trade goes into the open bar when that is its bucket's, and into a new one
\* otherwise.
LEMMA TimeStep ==
  ASSUME NEW s, GoodSpec(s), s.kind = "time", NEW a, GoodBars(s, a), NEW e \in TradeRec,
         Accepts(s, e.ts)
  PROVE  LET x == AddTime(s, a, e)
             S == Snapshot(a)
             T == Snapshot(x)
             start == BucketStart(s, e.ts)
         IN /\ Grown(s, a, x, e.qty) /\ T # <<>> /\ T[Len(T)].start = start
            /\ IF S # <<>> /\ S[Len(S)].start = start
               THEN Extends(S, T, e.qty) /\ T[Len(T)].end = S[Len(S)].end
               ELSE Adds(S, T, e.qty) /\ T[Len(T)].end = start + s.interval
<1> DEFINE start == BucketStart(s, e.ts)
           same == a.open # <<>> /\ a.open[1].start = start
           z == IF same THEN a
                ELSE [bars |-> FlushBars(a).bars,
                      open |-> <<EmptyBar(start, start + s.interval,
                                          Label(Classify(start), Classify(e.ts)))>>]
           c == z.open[1]
           b == ApplyTrade(c, e.px, e.qty, e.side)
           x == AddTime(s, a, e)
           S == Snapshot(a)
           T == Snapshot(x)
<1>1. e.px \in Int /\ e.qty \in Nat /\ e.ts \in Int
  BY DEF TradeRec
<1>2. start \in Int /\ s.interval \in Nat
  BY <1>1, BucketFacts
<1>3. /\ a \in AggRec /\ S \in Seq(BarRec) /\ a.bars \in Seq(BarRec)
      /\ FlushBars(a) = [bars |-> S, open |-> <<>>]
  BY SnapshotIs, AggIs DEF GoodBars
<1>4. x = [z EXCEPT !.open = <<ApplyTrade(@[1], e.px, e.qty, e.side)>>]
  BY DEF AddTime, InBucket
<1> HIDE DEF start, x, S
<1>5. CASE same
  <2>1. z = a /\ c = a.open[1] /\ c.start = start /\ a.open # <<>>
    BY <1>5
  <2>2. OpenBar(s, c) /\ c \in BarRec /\ Shape(c)
    BY <2>1 DEF GoodBars, OpenBar
  <2> HIDE DEF z, c, b
  <2>3. x = [bars |-> a.bars, open |-> <<b>>]
    BY <2>1, <1>3, <1>4, AggIs DEF b, c
  <2>4. /\ b \in BarRec /\ Shape(b) /\ b.vol = c.vol + e.qty /\ b.n = c.n + 1
        /\ b.start = c.start /\ b.end = c.end
    BY <2>2, <1>1, ApplyTradeFacts, ShapeKept DEF b
  <2>5. x \in AggRec /\ T = Append(a.bars, b) /\ Extends(S, T, e.qty)
    BY <2>1, <2>3, <2>4, <1>1, <1>3, SnapshotGrows DEF S
  <2>6. S = Append(a.bars, c)
    BY <2>1, <1>3, SnapshotIs DEF S
  <2>7. /\ S # <<>> /\ T # <<>> /\ T \in Seq(BarRec) /\ S[Len(S)] = c /\ T[Len(T)] = b
    BY <2>2, <2>4, <2>5, <2>6, <1>3, AppendIs
  <2>8. x.bars = a.bars /\ x.open # <<>> /\ x.open[1] = b
    BY <2>3
  <2>9. OpenBar(s, b)
    BY <2>4 DEF OpenBar
  <2>10. GoodBars(s, x)
    BY <2>5, <2>8, <2>9 DEF GoodBars
  <2> QED BY <2>1, <2>4, <2>5, <2>7, <2>10, <1>3 DEF Grown, x, S, start
<1>6. CASE ~same
  <2>1. /\ c = EmptyBar(start, start + s.interval, Label(Classify(start), Classify(e.ts)))
        /\ z = [bars |-> S, open |-> <<c>>]
    BY <1>3, <1>6
  <2>2. /\ c \in BarRec /\ c.n = 0 /\ c.vol = 0 /\ c.start = start
        /\ c.end = start + s.interval
    <3>1. start + s.interval \in Int
      BY <1>2
    <3>2. c \in BarRec
      BY <2>1, <3>1, <1>1, <1>2, EmptyBarType
    <3>3. \A l, u, v : EmptyBar(u, v, l).n = 0 /\ EmptyBar(u, v, l).vol = 0
                       /\ EmptyBar(u, v, l).start = u /\ EmptyBar(u, v, l).end = v
      BY DEF EmptyBar
    <3> QED BY <3>2, <3>3, <2>1
  <2> HIDE DEF z, c, b
  <2>3. x = [bars |-> S, open |-> <<b>>]
    BY <2>1, <1>4 DEF b
  <2>4. /\ b \in BarRec /\ Shape(b) /\ b.vol = e.qty /\ b.n = 1
        /\ b.start = start /\ b.end = start + s.interval
    BY <2>2, <1>1, ApplyTradeFacts, ShapeKept DEF b
  <2> DEFINE f == FlushBars(a)
  <2>5. f \in AggRec /\ f.bars = S /\ f.open = <<>> /\ Snapshot(f) = S
    BY <1>3, SnapshotIs DEF S
  <2>6. x \in AggRec /\ T = Append(S, b) /\ Adds(S, T, e.qty)
    <3> HIDE DEF f
    <3> QED BY <2>3, <2>4, <2>5, <1>1, SnapshotGrows
  <2>7. T # <<>> /\ T \in Seq(BarRec) /\ T[Len(T)] = b
    BY <2>4, <2>6, <1>3, AppendIs
  <2>8. x.bars = S /\ x.open # <<>> /\ x.open[1] = b
    BY <2>3
  <2>9. OpenBar(s, b)
    BY <2>4 DEF OpenBar
  <2>10. \A k \in DOMAIN S : ClosedBar(s, S[k])
    BY Flushed DEF S
  <2>11. GoodBars(s, x)
    BY <2>6, <2>8, <2>9, <2>10 DEF GoodBars
  <2>12. S # <<>> => S[Len(S)].start # start
    <3> SUFFICES ASSUME S # <<>> PROVE S[Len(S)].start # start
      OBVIOUS
    <3>1. a.open # <<>>
      BY <1>3, SnapshotIs DEF GoodBars, S
    <3>2. S = Append(a.bars, a.open[1]) /\ a.open[1] \in BarRec
      BY <3>1, <1>3, SnapshotIs, AggIs DEF S
    <3>3. S[Len(S)] = a.open[1]
      BY <3>2, <1>3, AppendIs
    <3> QED BY <3>1, <3>3, <1>6
  <2> QED BY <2>4, <2>6, <2>7, <2>11, <2>12, <1>3 DEF Grown, x, S, start
<1> QED BY <1>5, <1>6

\* The prefix sums of the takes.
LEMMA PrefixFacts ==
  ASSUME NEW A, NEW w \in Seq(A)
  PROVE  /\ SubSeq(w, 1, 0) = <<>> /\ SubSeq(w, 1, Len(w)) = w
         /\ \A k \in 0..Len(w) : SubSeq(w, 1, k) \in Seq(A) /\ Len(SubSeq(w, 1, k)) = k
                                 /\ \A j \in 1..k : SubSeq(w, 1, k)[j] = w[j]
         /\ \A k \in 0..(Len(w) - 1) :
               /\ w[k + 1] \in A
               /\ SubSeq(w, 1, k + 1) = Append(SubSeq(w, 1, k), w[k + 1])
<1>1. Len(w) \in Nat /\ DOMAIN w = 1..Len(w) /\ \A j \in 1..Len(w) : w[j] \in A
  OBVIOUS
<1>2. ASSUME NEW k \in 0..Len(w)
      PROVE  SubSeq(w, 1, k) \in Seq(A) /\ Len(SubSeq(w, 1, k)) = k
             /\ \A j \in 1..k : SubSeq(w, 1, k)[j] = w[j]
  <2>1. SubSeq(w, 1, k) = [j \in 1..k |-> w[j]]
    BY <1>1
  <2>2. \A j \in 1..k : w[j] \in A
    BY <1>1
  <2> QED BY <2>1, <2>2
<1>3. SubSeq(w, 1, 0) = <<>>
  BY <1>1, <1>2
<1>4. SubSeq(w, 1, Len(w)) = w
  BY <1>1, <1>2
<1>5. ASSUME NEW k \in 0..(Len(w) - 1)
      PROVE  SubSeq(w, 1, k + 1) = Append(SubSeq(w, 1, k), w[k + 1])
  <2> DEFINE u == SubSeq(w, 1, k + 1)
             v == SubSeq(w, 1, k)
             a == Append(v, w[k + 1])
  <2>1. /\ u \in Seq(A) /\ Len(u) = k + 1 /\ v \in Seq(A) /\ Len(v) = k
        /\ \A j \in 1..(k + 1) : u[j] = w[j]
        /\ \A j \in 1..k : v[j] = w[j]
        /\ w[k + 1] \in A
    BY <1>1, <1>2
  <2>2. a \in Seq(A) /\ Len(a) = k + 1 /\ a[k + 1] = w[k + 1] /\ \A j \in 1..k : a[j] = v[j]
    <3> HIDE DEF u, v
    <3> QED BY <2>1, AppendIs
  <2> HIDE DEF u, v, a
  <2>3. \A j \in 1..(k + 1) : u[j] = a[j]
    <3>1. \A j \in 1..(k + 1) : j = k + 1 \/ j \in 1..k
      OBVIOUS
    <3> QED BY <3>1, <2>1, <2>2
  <2>4. u = a
    BY <2>1, <2>2, <2>3
  <2> QED BY <2>4 DEF u, a, v
<1>6. \A k \in 0..(Len(w) - 1) : w[k + 1] \in A
  BY <1>1
<1> QED BY <1>2, <1>3, <1>4, <1>5, <1>6

\* How much the open bar and the k - 1 after it have room for.
Cap(room, count, k) == IF k = 0 THEN 0 ELSE room + (k - 1) * count

\* Each take but the last is all there is room for, and together they are qty.
TakesAll(T, room, qty, count) ==
    /\ T \in Seq(Nat) /\ Cap(room, count, Len(T)) >= qty
    /\ \A k \in 0..(Len(T) - 1) :
         /\ Cap(room, count, k) \in Nat /\ Cap(room, count, k) < qty
         /\ Cap(room, count, k + 1) = Cap(room, count, k) + (IF k = 0 THEN room ELSE count)
         /\ T[k + 1] = LET r == IF k = 0 THEN room ELSE count
                           left == qty - Cap(room, count, k)
                       IN IF left < r THEN left ELSE r

\* The takes of a print are positive and add up to it: the first fills the room
\* left, each other one a bar, but for the last.
LEMMA TakesFacts ==
  ASSUME NEW room \in Nat \ {0}, NEW qty \in Nat \ {0}, NEW count \in Nat \ {0}
  PROVE  TakesAll(Takes(room, qty, count), room, qty, count)
<1> DEFINE first == Min({qty, room})
           rest == qty - first
           c == (rest + count - 1) \div count
           tail == [i \in 1..c |-> Min({count, rest - (i - 1) * count})]
           T == Takes(room, qty, count)
<1>1. T = <<first>> \o tail
  BY DEF Takes
<1>2. first = (IF qty < room THEN qty ELSE room) /\ first \in Nat \ {0} /\ rest \in Nat
      /\ (rest > 0 => first = room /\ qty = rest + room) /\ (rest = 0 => first = qty)
  <2>1. Min({qty, room}) = IF qty < room THEN qty ELSE room
    BY TwoExtremes
  <2>2. first = IF qty < room THEN qty ELSE room
    BY <2>1
  <2>3. rest = qty - first
    OBVIOUS
  <2> HIDE DEF first, rest
  <2> QED BY <2>2, <2>3
<1> HIDE DEF first, rest
<1>3. c \in Nat /\ c * count <= rest + count - 1 /\ rest + count - 1 < c * count + count
      /\ c * count \in Nat
  <2>1. rest + count - 1 \in Nat
    BY <1>2
  <2>2. c \in Int /\ c * count <= rest + count - 1 /\ rest + count - 1 < c * count + count
    <3> DEFINE x == rest + count - 1
    <3>1. x \in Int
      BY <2>1
    <3> HIDE DEF x
    <3>2. x \div count \in Int /\ (x \div count) * count <= x
          /\ x < (x \div count) * count + count
      BY <3>1, DivFacts
    <3> QED BY <3>2 DEF x
  <2>3. c \in Nat
    <3> SUFFICES ASSUME c < 0 PROVE FALSE
      BY <2>2
    <3>1. c + 1 <= 0 /\ c + 1 \in Int
      BY <2>2
    <3>2. (c + 1) * count <= 0
      BY <3>1
    <3>3. (c + 1) * count = c * count + count
      BY <2>2
    <3> HIDE DEF c
    <3> QED BY <2>1, <2>2, <3>2, <3>3
  <2>4. c * count \in Nat
    BY <2>3
  <2> QED BY <2>2, <2>3, <2>4
<1> HIDE DEF c
<1>4. ASSUME NEW i \in 1..c
      PROVE  /\ (i - 1) * count \in Nat /\ (i - 1) * count < rest /\ tail[i] \in Nat
             /\ tail[i] = IF rest - (i - 1) * count < count THEN rest - (i - 1) * count ELSE count
  <2>1. i <= c /\ i - 1 \in Nat
    BY <1>3
  <2>2. i * count <= c * count
    BY <2>1, <1>3
  <2>3. i * count = (i - 1) * count + count
    BY <2>1
  <2>4. (i - 1) * count \in Nat
    BY <2>1
  <2> DEFINE p == (i - 1) * count
             p2 == i * count
             p3 == c * count
  <2> HIDE DEF p, p2, p3
  <2>5. p < rest
    <3>1. p3 <= rest + count - 1 /\ p2 <= p3 /\ p2 = p + count /\ p \in Nat
          /\ p2 \in Nat /\ p3 \in Nat
      BY <2>2, <2>3, <2>4, <1>3 DEF p, p2, p3
    <3> QED BY <3>1, <1>2
  <2>6. tail[i] = Min({count, rest - p})
    BY DEF p
  <2>7. p \in Nat
    BY <2>4 DEF p
  <2> HIDE DEF tail
  <2>8. tail[i] = IF rest - p < count THEN rest - p ELSE count
    <3>1. rest - p \in Int
      BY <2>7, <1>2
    <3>2. Min({count, rest - p}) = IF count < rest - p THEN count ELSE rest - p
      BY <3>1, TwoExtremes
    <3> QED BY <3>1, <3>2, <2>6
  <2>9. tail[i] \in Nat
    BY <2>5, <2>7, <2>8, <1>2
  <2> QED BY <2>4, <2>5, <2>8, <2>9 DEF p
<1>5. tail \in Seq(Nat) /\ Len(tail) = c
  <2>1. tail \in [1..c -> Nat]
    BY <1>4
  <2> HIDE DEF tail
  <2> QED BY <2>1, <1>3
<1>6. /\ T \in Seq(Nat) /\ Len(T) = c + 1 /\ T[1] = first
      /\ \A i \in 1..c : T[i + 1] = tail[i]
  <2> HIDE DEF tail, T
  <2>1. <<first>> \in Seq(Nat) /\ Len(<<first>>) = 1 /\ <<first>>[1] = first
    BY <1>2
  <2> DEFINE u == <<first>>
  <2> HIDE DEF u
  <2>2. /\ u \o tail \in Seq(Nat) /\ Len(u \o tail) = Len(u) + Len(tail)
        /\ \A i \in 1..(Len(u) + Len(tail)) :
              (u \o tail)[i] = IF i <= Len(u) THEN u[i] ELSE tail[i - Len(u)]
    BY <2>1, <1>5, ConcatProperties DEF u
  <2>3. Len(u) = 1 /\ u[1] = first
    BY <2>1 DEF u
  <2>4. T = u \o tail
    BY <1>1 DEF u
  <2>5. Len(T) = c + 1
    BY <2>2, <2>3, <2>4, <1>3, <1>5
  <2>6. 1 \in 1..(1 + c) /\ \A i \in 1..c : i + 1 \in 1..(1 + c) /\ ~(i + 1 <= 1) /\ (i + 1) - 1 = i
    BY <1>3
  <2>7. T[1] = first
    BY <2>2, <2>3, <2>4, <2>6, <1>5
  <2>8. \A i \in 1..c : T[i + 1] = tail[i]
    BY <2>2, <2>3, <2>4, <2>6, <1>5
  <2> QED BY <2>2, <2>4, <2>5, <2>7, <2>8
<1> HIDE DEF T, tail
<1> DEFINE m == Len(T)
           C(k) == Cap(room, count, k)
<1>7. m = c + 1 /\ m \in Nat
  BY <1>3, <1>6
<1>8. C(m) >= qty
  <2>1. C(m) = room + c * count
    BY <1>3, <1>7 DEF Cap
  <2> DEFINE p3 == c * count
  <2>2. p3 \in Nat /\ rest + count - 1 < p3 + count
    BY <1>3
  <2> HIDE DEF p3
  <2>3. rest <= p3
    BY <2>2, <1>2
  <2>4. qty <= room + p3
    BY <2>2, <2>3, <1>2
  <2>5. C(m) = room + p3
    BY <2>1 DEF p3
  <2> QED BY <2>2, <2>4, <2>5
<1>9. ASSUME NEW k \in 0..(m - 1)
      PROVE  /\ C(k) \in Nat /\ C(k) < qty
             /\ C(k + 1) = C(k) + (IF k = 0 THEN room ELSE count)
             /\ T[k + 1] = LET r == IF k = 0 THEN room ELSE count
                               left == qty - C(k)
                           IN IF left < r THEN left ELSE r
  <2>1. CASE k = 0
    <3>1. C(0) = 0 /\ C(1) = room
      BY DEF Cap
    <3> QED BY <2>1, <3>1, <1>2, <1>6
  <2>2. CASE k # 0
    <3> DEFINE p == (k - 1) * count
    <3>1. k \in 1..c
      BY <2>2, <1>7, <1>3
    <3>2. p \in Nat /\ p < rest
          /\ tail[k] = (IF rest - p < count THEN rest - p ELSE count) /\ T[k + 1] = tail[k]
      BY <3>1, <1>4, <1>6
    <3>3. C(k) = room + p /\ C(k + 1) = room + p + count
      <4>1. ((k + 1) - 1) * count = p + count
        BY <3>1
      <4> QED BY <2>2, <3>1, <4>1 DEF Cap
    <3>4. first = room /\ qty = rest + room
      BY <3>2, <1>2
    <3> HIDE DEF p, m, C
    <3>5. C(k) \in Nat /\ C(k) < qty /\ qty - C(k) = rest - p
      BY <3>2, <3>3, <3>4, <1>2
    <3>6. C(k + 1) = C(k) + count
      BY <3>3
    <3>7. T[k + 1] = IF qty - C(k) < count THEN qty - C(k) ELSE count
      BY <3>2, <3>5
    <3> QED BY <2>2, <3>5, <3>6, <3>7
  <2> QED BY <2>1, <2>2
<1> QED BY <1>6, <1>7, <1>8, <1>9 DEF T, TakesAll

-----------------------------------------------------------------------------
LEMMA TakeType ==
  ASSUME NEW s, NEW e \in TradeRec, NEW a \in AggRec, NEW q \in Nat
  PROVE  FlushFull(s, Put(a, e, q)) \in AggRec
<1> DEFINE c == IF a.open = <<>> THEN BarAt(e.ts) ELSE a.open[1]
           b == [ApplyTrade(c, e.px, q, e.side) EXCEPT !.end = e.ts]
<1>1. e.ts \in Int /\ e.px \in Int
  BY DEF TradeRec
<1>2. c \in BarRec
  BY <1>1, EmptyBarType, AggIs
<1>3. b \in BarRec
  <2> HIDE DEF c
  <2> QED BY <1>1, <1>2, ApplyTradeFacts
<1>4. Put(a, e, q) = [a EXCEPT !.open = <<b>>]
  BY DEF Put
<1> HIDE DEF b
<1>5. Put(a, e, q) \in AggRec
  <2>1. Put(a, e, q) = [bars |-> a.bars, open |-> <<b>>]
    BY <1>4, AggIs
  <2> QED BY <2>1, <1>3, AggIs DEF AggRec, OpenBars
<1> QED BY <1>5, SnapshotIs DEF FlushFull

\* The takes of one print, one by one.
TakeRun(s, e, base, w) == FoldLeft(LAMBDA a, q : FlushFull(s, Put(a, e, q)), base, w)

\* The fold of the takes into an aggregator.
LEMMA TakeFold ==
  ASSUME NEW s, NEW e \in TradeRec, NEW base \in AggRec
  PROVE  /\ TakeRun(s, e, base, <<>>) = base
         /\ \A w \in Seq(Nat) : TakeRun(s, e, base, w) \in AggRec
         /\ \A w \in Seq(Nat), q \in Nat :
               TakeRun(s, e, base, Append(w, q)) = FlushFull(s, Put(TakeRun(s, e, base, w), e, q))
<1> DEFINE F == [a \in AggRec |-> [x \in Nat |-> FlushFull(s, Put(a, e, x))]]
<1>1. IsStep(F, Nat, AggRec) /\ \A a \in AggRec, x \in Nat : F[a][x] = FlushFull(s, Put(a, e, x))
  <2>1. \A a \in AggRec, x \in Nat : FlushFull(s, Put(a, e, x)) \in AggRec
    BY TakeType
  <2> QED BY <2>1 DEF IsStep
<1> DEFINE V == AggRec
           A == Nat
<1> HIDE DEF F, V, A
<1>2. ASSUME NEW w \in Seq(Nat)
      PROVE  TakeRun(s, e, base, w) = RunOf(F, base, w)
  <2> DEFINE Fix(it) == it = [part \in SUBSET DOMAIN w |->
                                IF part = {} THEN base
                                ELSE LET x == Max(part) IN FlushFull(s, Put(it[part \ {x}], e, w[x]))]
             it == CHOOSE it : Fix(it)
  <2>1. \A part \in SUBSET DOMAIN w : part # {} => w[Max(part)] \in Nat
    <3>1. DOMAIN w = 1..Len(w) /\ Len(w) \in Nat /\ \A k \in 1..Len(w) : w[k] \in Nat
      OBVIOUS
    <3> QED BY <3>1, MaxFacts
  <2>2. \E f : Fix(f)
    <3>1. PICK f : Solves(f, F, AggRec, base, w)
      BY <1>1, FoldSolution DEF V
    <3>2. ASSUME NEW part \in SUBSET DOMAIN w, part # {}
          PROVE  f[part] = FlushFull(s, Put(f[part \ {Max(part)}], e, w[Max(part)]))
      <4>1. f[part \ {Max(part)}] \in AggRec /\ f[part] = F[f[part \ {Max(part)}]][w[Max(part)]]
        BY <3>1, <3>2 DEF Solves
      <4> QED BY <4>1, <3>2, <2>1, <1>1
    <3>3. f = [part \in SUBSET DOMAIN w |-> f[part]] /\ f[{}] = base
      BY <3>1 DEF Solves
    <3> QED BY <3>2, <3>3
  <2>3. Fix(it)
    <3> HIDE DEF Fix
    <3> QED BY <2>2, Zenon
  <2>4. TakeRun(s, e, base, w) = it[DOMAIN w]
    BY DEF TakeRun, FoldLeft, MapThenFoldSet
  <2> HIDE DEF it
  <2>5. it[{}] = base
    BY <2>3
  <2>6. ASSUME NEW part \in SUBSET DOMAIN w, part # {}, it[part \ {Max(part)}] \in AggRec
        PROVE  it[part] = F[it[part \ {Max(part)}]][w[Max(part)]]
    BY <2>3, <2>6, <2>1, <1>1
  <2>7. it[DOMAIN w] = RunOf(F, base, w)
    <3> HIDE DEF Fix
    <3>1. IsStep(F, A, V) /\ base \in V /\ w \in Seq(A)
      BY <1>1 DEF V, A
    <3>2. StepsAlong(it, F, V, base, w)
      BY <2>5, <2>6 DEF V, StepsAlong
    <3> QED BY <3>1, <3>2, FoldIsRun
  <2> QED BY <2>4, <2>7
<1>3. /\ RunOf(F, base, <<>>) = base
      /\ \A w \in Seq(Nat) : RunOf(F, base, w) \in AggRec
      /\ \A w \in Seq(Nat), q \in Nat :
            RunOf(F, base, Append(w, q)) = F[RunOf(F, base, w)][q]
  BY <1>1, RunFacts
<1>4. <<>> \in Seq(Nat) /\ \A w \in Seq(Nat), q \in Nat : Append(w, q) \in Seq(Nat)
  OBVIOUS
<1>5. ASSUME NEW w \in Seq(Nat), NEW q \in Nat
      PROVE  TakeRun(s, e, base, Append(w, q)) = FlushFull(s, Put(TakeRun(s, e, base, w), e, q))
  <2>1. Append(w, q) \in Seq(Nat) /\ RunOf(F, base, w) \in AggRec
    BY <1>3, <1>4
  <2>2. /\ TakeRun(s, e, base, Append(w, q)) = RunOf(F, base, Append(w, q))
        /\ TakeRun(s, e, base, w) = RunOf(F, base, w)
    BY <2>1, <1>2
  <2>3. F[RunOf(F, base, w)][q] = FlushFull(s, Put(RunOf(F, base, w), e, q))
    BY <2>1, <1>1
  <2>4. RunOf(F, base, Append(w, q)) = F[RunOf(F, base, w)][q]
    BY <1>3
  <2> QED BY <2>2, <2>3, <2>4
<1>6. TakeRun(s, e, base, <<>>) = base
  BY <1>2, <1>3, <1>4
<1>7. \A w \in Seq(Nat) : TakeRun(s, e, base, w) \in AggRec
  BY <1>2, <1>3
<1> QED BY <1>5, <1>6, <1>7

\* Taking q by q fills each bar before the next, and loses nothing.
LEMMA TakesStep ==
  ASSUME NEW s, GoodSpec(s), s.kind = "volume", NEW a, GoodBars(s, a), NEW e \in TradeRec,
         NEW x, GoodBars(s, x), NEW qty \in Nat, NEW cap \in Nat, cap < qty,
         NEW q, q = (IF qty - cap < Room(s, x) THEN qty - cap ELSE Room(s, x))
  PROVE  LET y == FlushFull(s, Put(x, e, q))
         IN /\ q \in Nat \ {0} /\ GoodBars(s, y)
            /\ Len(Snapshot(x)) <= Len(Snapshot(y))
            /\ Total(Vols(Snapshot(y))) = Total(Vols(Snapshot(x))) + q
            /\ cap + Room(s, x) < qty => Room(s, y) = s.count
<1> DEFINE y == FlushFull(s, Put(x, e, q))
           S == Snapshot(x)
           T == Snapshot(y)
<1>1. Room(s, x) \in Nat \ {0} /\ s.count \in Nat \ {0}
  <2>1. s.count \in Nat \ {0}
    BY DEF GoodSpec, SpecRec, ValidSpec
  <2>2. x.open # <<>> => x.open[1].vol \in Nat /\ x.open[1].vol < s.count
    BY DEF GoodBars, OpenBar, BarRec
  <2> QED BY <2>1, <2>2 DEF Room
<1>2. q \in Nat \ {0} /\ q <= Room(s, x)
  BY <1>1
<1>3. TradeOk(e, q)
  BY <1>2 DEF TradeOk, TradeRec
<1>4. /\ GoodBars(s, y) /\ S \in Seq(BarRec) /\ T \in Seq(BarRec)
      /\ Extends(S, T, q) \/ Adds(S, T, q)
      /\ q = Room(s, x) => y.open = <<>>
  BY <1>2, <1>3, TakeStep
<1> HIDE DEF y, S, T
<1>5. Total(Vols(T)) = Total(Vols(S)) + q
  BY <1>2, <1>4, VolumeGrows
<1>6. Len(S) <= Len(T)
  <2>1. Len(S) \in Nat /\ Len(T) \in Nat
    BY <1>4
  <2> QED BY <1>4, <2>1 DEF Extends, Adds
<1>7. cap + Room(s, x) < qty => Room(s, y) = s.count
  <2> SUFFICES ASSUME cap + Room(s, x) < qty PROVE Room(s, y) = s.count
    OBVIOUS
  <2>1. q = Room(s, x)
    BY <1>1
  <2> QED BY <2>1, <1>1, <1>4 DEF Room
<1> QED BY <1>2, <1>4, <1>5, <1>6, <1>7 DEF y, S, T

\* A print in volume bars: no contract is lost, and no bar is above its count.
LEMMA VolumeStep ==
  ASSUME NEW s, GoodSpec(s), s.kind = "volume", NEW a, GoodBars(s, a), NEW e \in TradeRec
  PROVE  LET x == AddVolume(s, a, e)
         IN /\ GoodBars(s, x) /\ Len(Snapshot(a)) <= Len(Snapshot(x))
            /\ Total(Vols(Snapshot(x))) = Total(Vols(Snapshot(a))) + e.qty
<1> DEFINE qty == e.qty
           len == Len(Snapshot(a))
           vol == Total(Vols(Snapshot(a)))
<1>1. qty \in Nat
  BY DEF TradeRec
<1>2. Snapshot(a) \in Seq(BarRec) /\ len \in Nat /\ vol \in Int
  <2>1. Snapshot(a) \in Seq(BarRec)
    BY SnapshotIs DEF GoodBars
  <2>2. Vols(Snapshot(a)) \in Seq(Int)
    BY <2>1, VolsType
  <2> QED BY <2>1, <2>2, TotalType
<1>3. CASE qty <= 0
  <2>1. qty = 0 /\ AddVolume(s, a, e) = a
    BY <1>1, <1>3 DEF AddVolume
  <2> QED BY <2>1, <1>2
<1>4. CASE ~(qty <= 0)
  <2> DEFINE room == Room(s, a)
             count == s.count
             W == Takes(room, qty, count)
             m == Len(W)
             X(k) == TakeRun(s, e, a, SubSeq(W, 1, k))
             C(k) == Cap(room, count, k)
  <2>1. room \in Nat \ {0} /\ count \in Nat \ {0} /\ qty \in Nat \ {0}
    <3>1. s.count \in Nat \ {0}
      BY DEF GoodSpec, SpecRec, ValidSpec
    <3>2. a.open # <<>> => a.open[1].vol \in Nat /\ a.open[1].vol < s.count
      BY DEF GoodBars, OpenBar, BarRec
    <3> QED BY <3>1, <3>2, <1>1, <1>4 DEF Room
  <2> HIDE DEF room, count, qty
  <2>2. /\ W \in Seq(Nat) /\ m \in Nat /\ C(m) >= qty
        /\ \A k \in 0..(m - 1) :
             /\ C(k) \in Nat /\ C(k) < qty
             /\ C(k + 1) = C(k) + (IF k = 0 THEN room ELSE count)
             /\ W[k + 1] = LET r == IF k = 0 THEN room ELSE count
                               left == qty - C(k)
                           IN IF left < r THEN left ELSE r
    <3>1. TakesAll(W, room, qty, count)
      BY <2>1, TakesFacts
    <3>2. m \in Nat
      BY <3>1 DEF TakesAll
    <3> HIDE DEF W
    <3> QED BY <3>1, <3>2 DEF TakesAll
  <2> HIDE DEF W
  <2>3. /\ SubSeq(W, 1, 0) = <<>> /\ SubSeq(W, 1, m) = W
        /\ \A k \in 0..m : SubSeq(W, 1, k) \in Seq(Nat)
        /\ \A k \in 0..(m - 1) : /\ W[k + 1] \in Nat
                                 /\ SubSeq(W, 1, k + 1) = Append(SubSeq(W, 1, k), W[k + 1])
    BY <2>2, PrefixFacts
  <2>4. AddVolume(s, a, e) = TakeRun(s, e, a, W)
    BY <1>4 DEF AddVolume, TakeRun, W, Room, room, count, qty
  <2> HIDE DEF m
  <2>5. X(0) = a /\ \A k \in 0..(m - 1) : X(k + 1) = FlushFull(s, Put(X(k), e, W[k + 1]))
    <3>1. a \in AggRec
      BY DEF GoodBars
    <3>2. /\ TakeRun(s, e, a, <<>>) = a
          /\ \A w \in Seq(Nat), q \in Nat :
                TakeRun(s, e, a, Append(w, q)) = FlushFull(s, Put(TakeRun(s, e, a, w), e, q))
      BY <3>1, TakeFold
    <3>3. \A k \in 0..(m - 1) : k \in 0..m
      BY <2>2
    <3> QED BY <2>3, <3>2, <3>3
  <2> HIDE DEF X, C
  <2> DEFINE P(k) == /\ GoodBars(s, X(k)) /\ len <= Len(Snapshot(X(k)))
                     /\ C(k) \in Nat
                     /\ Total(Vols(Snapshot(X(k)))) = vol + (IF C(k) < qty THEN C(k) ELSE qty)
                     /\ C(k) < qty => Room(s, X(k)) = IF k = 0 THEN room ELSE count
             G == {k \in Nat : k <= m => P(k)}
  <2> HIDE DEF len, vol
  <2>6. 0 \in G
    <3>1. C(0) = 0
      BY DEF C, Cap
    <3> QED BY <3>1, <2>1, <2>5, <1>2 DEF room, len, vol
  <2>7. ASSUME NEW k \in Nat, k \in G PROVE k + 1 \in G
    <3> SUFFICES ASSUME k + 1 <= m PROVE P(k + 1)
      OBVIOUS
    <3>1. k \in 0..(m - 1) /\ k <= m
      BY <2>2
    <3>2. P(k)
      BY <3>1, <2>7
    <3> DEFINE x == X(k)
               y == X(k + 1)
               q == W[k + 1]
               cap == C(k)
               r == IF k = 0 THEN room ELSE count
    <3>3. /\ cap \in Nat /\ cap < qty /\ C(k + 1) = cap + r
          /\ q = IF qty - cap < r THEN qty - cap ELSE r
      BY <3>1, <2>2
    <3>4. /\ GoodBars(s, x) /\ len <= Len(Snapshot(x))
          /\ Total(Vols(Snapshot(x))) = vol + cap /\ Room(s, x) = r
      BY <3>2, <3>3
    <3>5. y = FlushFull(s, Put(x, e, q))
      BY <3>1, <2>5
    <3>6. r \in Nat \ {0}
      BY <2>1
    <3>7. Len(Snapshot(x)) \in Nat /\ (Len(Snapshot(y)) \in Nat \/ ~GoodBars(s, y))
      BY <3>4, SnapshotIs DEF GoodBars
    <3> HIDE DEF x, y, q, cap, r
    <3>8. /\ q \in Nat \ {0} /\ GoodBars(s, y)
          /\ Len(Snapshot(x)) <= Len(Snapshot(y))
          /\ Total(Vols(Snapshot(y))) = Total(Vols(Snapshot(x))) + q
          /\ cap + Room(s, x) < qty => Room(s, y) = s.count
      <4>1. qty \in Nat /\ q = IF qty - cap < Room(s, x) THEN qty - cap ELSE Room(s, x)
        BY <2>1, <3>3, <3>4
      <4> HIDE DEF P, G
      <4> QED BY <3>3, <3>4, <3>5, <4>1, TakesStep
    <3>9. len <= Len(Snapshot(y))
      BY <3>4, <3>7, <3>8, <1>2 DEF len
    <3>10. Total(Vols(Snapshot(y))) = vol + (IF cap + r < qty THEN cap + r ELSE qty)
      BY <3>3, <3>4, <3>6, <3>8, <2>1, <1>2 DEF vol
    <3>11. cap + r < qty => Room(s, y) = count
      BY <3>4, <3>8 DEF count
    <3>12. k + 1 # 0 /\ cap + r \in Nat
      BY <3>3, <3>6
    <3> QED BY <3>3, <3>8, <3>9, <3>10, <3>11, <3>12 DEF y
  <2>8. \A k \in Nat : k \in G
    <3> HIDE DEF G
    <3> QED BY <2>6, <2>7, Induction
  <2>9. P(m)
    BY <2>2, <2>8
  <2>10. X(m) = AddVolume(s, a, e)
    BY <2>3, <2>4 DEF X
  <2>11. ~(C(m) < qty)
    BY <2>1, <2>2, <2>9 DEF C
  <2> QED BY <2>9, <2>10, <2>11 DEF len, vol, qty
<1> QED BY <1>3, <1>4

\* What one trade does to good bars.
LEMMA AddBarStep ==
  ASSUME NEW s, GoodSpec(s), NEW a, GoodBars(s, a), NEW e \in TradeRec, Accepts(s, e.ts)
  PROVE  LET x == AddBar(s, a, e)
             S == Snapshot(a)
             T == Snapshot(x)
         IN /\ GoodBars(s, x) /\ S \in Seq(BarRec) /\ T \in Seq(BarRec) /\ Len(S) <= Len(T)
            /\ Total(Vols(T)) = Total(Vols(S)) + e.qty
            /\ s.kind # "volume" => Extends(S, T, e.qty) \/ Adds(S, T, e.qty)
<1> DEFINE x == AddBar(s, a, e)
           S == Snapshot(a)
           T == Snapshot(x)
<1>1. s.kind \in {"time", "tick", "volume", "range"}
  BY DEF GoodSpec, SpecRec
<1>2. e.qty \in Nat /\ TradeOk(e, e.qty)
  BY DEF TradeRec, TradeOk
<1>3. /\ s.kind = "time" => x = AddTime(s, a, e)
      /\ s.kind = "tick" => x = FlushFull(s, Put(a, e, e.qty))
      /\ s.kind = "volume" => x = AddVolume(s, a, e)
      /\ s.kind = "range" => x = AddRange(s, a, e)
  BY DEF AddBar, AddTick
<1>4. s.kind = "time" => Grown(s, a, x, e.qty)
  BY <1>3, TimeStep
<1>5. s.kind = "range" => Grown(s, a, x, e.qty)
  BY <1>3, RangeStep
<1>6. s.kind = "tick" => Grown(s, a, x, e.qty)
  BY <1>2, <1>3, TakeStep DEF Grown
<1>7. CASE s.kind # "volume"
  <2>1. Grown(s, a, x, e.qty)
    BY <1>1, <1>4, <1>5, <1>6, <1>7
  <2>2. GoodBars(s, x) /\ S \in Seq(BarRec) /\ T \in Seq(BarRec)
        /\ (Extends(S, T, e.qty) \/ Adds(S, T, e.qty))
    BY <2>1 DEF Grown
  <2> HIDE DEF S, T
  <2>3. Total(Vols(T)) = Total(Vols(S)) + e.qty
    BY <1>2, <2>2, VolumeGrows
  <2>4. Len(S) <= Len(T)
    <3>1. Len(S) \in Nat /\ Len(T) \in Nat
      BY <2>2
    <3> QED BY <2>2, <3>1 DEF Extends, Adds
  <2> QED BY <2>2, <2>3, <2>4 DEF S, T
<1>8. CASE s.kind = "volume"
  <2>1. GoodBars(s, x) /\ Len(S) <= Len(T) /\ Total(Vols(T)) = Total(Vols(S)) + e.qty
    BY <1>3, <1>8, VolumeStep
  <2>2. S \in Seq(BarRec) /\ T \in Seq(BarRec)
    <3> HIDE DEF x
    <3> QED BY <2>1, SnapshotIs DEF GoodBars
  <2> QED BY <2>1, <2>2, <1>8
<1> QED BY <1>7, <1>8

-----------------------------------------------------------------------------
(* Where each trade went. *)

\* The contracts of the trades X of a tape, and the trades of bar k.
QtyIn(w, X) == Total([i \in DOMAIN w |-> IF i \in X THEN w[i].qty ELSE 0])
Mine(h, k) == {i \in DOMAIN h : h[i] = k}

\* Contracts and trades of each bar, with one trade more on the tape.
LEMMA QtyAppend ==
  ASSUME NEW w \in Seq(TradeRec), NEW e \in TradeRec
  PROVE  \A X : /\ QtyIn(w, X) \in Int
                /\ QtyIn(Append(w, e), X) =
                     QtyIn(w, X) + (IF Len(w) + 1 \in X THEN e.qty ELSE 0)
<1> SUFFICES ASSUME NEW X
             PROVE  /\ QtyIn(w, X) \in Int
                    /\ QtyIn(Append(w, e), X) =
                         QtyIn(w, X) + (IF Len(w) + 1 \in X THEN e.qty ELSE 0)
  OBVIOUS
<1> DEFINE n == Len(w)
           f == [i \in DOMAIN w |-> IF i \in X THEN w[i].qty ELSE 0]
           a == Append(w, e)
           g == [i \in DOMAIN a |-> IF i \in X THEN a[i].qty ELSE 0]
           v == IF n + 1 \in X THEN e.qty ELSE 0
<1>1. /\ n \in Nat /\ DOMAIN w = 1..n /\ DOMAIN a = 1..(n + 1) /\ a[n + 1] = e
      /\ \A i \in 1..n : a[i] = w[i] /\ w[i] \in TradeRec
  BY AppendProperties
<1>2. e.qty \in Int /\ \A t \in TradeRec : t.qty \in Int
  BY DEF TradeRec
<1>3. f \in [1..n -> Int] /\ v \in Int
  BY <1>1, <1>2
<1> HIDE DEF n, a, v
<1>4. f \in Seq(Int) /\ Len(f) = n
  <2> HIDE DEF f
  <2> QED BY <1>1, <1>3
<1>5. g = [i \in 1..(n + 1) |-> IF i = n + 1 THEN v ELSE f[i]]
  <2>1. ASSUME NEW i \in 1..(n + 1)
        PROVE  (IF i \in X THEN a[i].qty ELSE 0) = IF i = n + 1 THEN v ELSE f[i]
    <3>1. CASE i = n + 1
      BY <3>1, <1>1 DEF v
    <3>2. CASE i # n + 1
      <4>1. i \in 1..n
        BY <3>2, <1>1
      <4> QED BY <4>1, <3>2, <1>1
    <3> QED BY <3>1, <3>2
  <2> QED BY <2>1, <1>1
<1>6. g = Append(f, v)
  <2> HIDE DEF f, g
  <2> QED BY <1>4, <1>5, AppendDef
<1>7. Total(g) = Total(f) + v /\ Total(f) \in Int
  <2> HIDE DEF f, g
  <2> QED BY <1>3, <1>4, <1>6, TotalAppend, TotalType
<1> QED BY <1>7 DEF QtyIn, a, v, n

LEMMA QtySame ==
  ASSUME NEW w, NEW X, NEW Y, \A i \in DOMAIN w : i \in X <=> i \in Y
  PROVE  QtyIn(w, X) = QtyIn(w, Y)
<1>1. [i \in DOMAIN w |-> IF i \in X THEN w[i].qty ELSE 0]
        = [i \in DOMAIN w |-> IF i \in Y THEN w[i].qty ELSE 0]
  OBVIOUS
<1> QED BY <1>1 DEF QtyIn

LEMMA MineAppend ==
  ASSUME NEW h \in Seq(Nat), NEW m \in Nat
  PROVE  \A k : /\ IsFiniteSet(Mine(h, k)) /\ Cardinality(Mine(h, k)) \in Nat
                /\ Mine(Append(h, m), k) = IF m = k THEN Mine(h, k) \cup {Len(h) + 1}
                                           ELSE Mine(h, k)
                /\ Cardinality(Mine(Append(h, m), k)) =
                     Cardinality(Mine(h, k)) + IF m = k THEN 1 ELSE 0
                /\ Len(h) + 1 \notin Mine(h, k)
<1> TAKE k
<1> DEFINE n == Len(h)
           a == Append(h, m)
<1>1. /\ n \in Nat /\ DOMAIN h = 1..n /\ DOMAIN a = 1..(n + 1) /\ a[n + 1] = m
      /\ \A i \in 1..n : a[i] = h[i]
  BY AppendProperties
<1>2. IsFiniteSet(Mine(h, k)) /\ n + 1 \notin Mine(h, k)
  <2>1. Mine(h, k) \in SUBSET (1..n) /\ IsFiniteSet(1..n)
    BY <1>1, FS_Interval DEF Mine
  <2>2. n + 1 \notin 1..n
    BY <1>1
  <2> HIDE DEF n
  <2> QED BY <2>1, <2>2, FS_Subset
<1> HIDE DEF n, a
<1>3. Mine(a, k) = IF m = k THEN Mine(h, k) \cup {n + 1} ELSE Mine(h, k)
  <2>1. ASSUME NEW i
        PROVE  i \in Mine(a, k) <=> i \in IF m = k THEN Mine(h, k) \cup {n + 1} ELSE Mine(h, k)
    <3>1. i \in 1..(n + 1) <=> i \in 1..n \/ i = n + 1
      BY <1>1
    <3>2. n + 1 \notin 1..n
      BY <1>1
    <3>3. i \in Mine(a, k) <=> (i \in 1..n /\ h[i] = k) \/ (i = n + 1 /\ m = k)
      BY <3>1, <3>2, <1>1 DEF Mine
    <3>4. i \in Mine(h, k) <=> i \in 1..n /\ h[i] = k
      BY <1>1 DEF Mine
    <3> QED BY <3>3, <3>4
  <2> QED BY <2>1
<1>4. Cardinality(Mine(h, k)) \in Nat
      /\ Cardinality(Mine(h, k) \cup {n + 1}) = Cardinality(Mine(h, k)) + 1
  BY <1>2, FS_CardinalityType, FS_AddElement
<1>5. Cardinality(Mine(a, k)) = Cardinality(Mine(h, k)) + IF m = k THEN 1 ELSE 0
  BY <1>3, <1>4
<1> QED BY <1>2, <1>3, <1>4, <1>5 DEF n, a

-----------------------------------------------------------------------------
(* Where the trades of a tape went. *)

\* Each bar is of its trades.
Counts(S, w, h) ==
    \A k \in 1..Len(S) : S[k].vol = QtyIn(w, Mine(h, k)) /\ S[k].n = Cardinality(Mine(h, k))
\* Each trade is in the bar of its bucket, and two bars in a row are of two.
Buckets(s, S, w, h) ==
    /\ \A i \in 1..Len(w) : h[i] \in 1..Len(S) /\ S[h[i]].start = BucketStart(s, w[i].ts)
    /\ \A k \in 1..Len(S) : /\ S[k].end = S[k].start + s.interval
                            /\ \E i \in 1..Len(w) : h[i] = k
    /\ \A k \in 1..(Len(S) - 1) : S[k].start # S[k + 1].start
\* Homes of trades: each has one, a later trade no earlier one.
Homes(S, w, h) ==
    /\ w \in Seq(TradeRec) /\ h \in Seq(Nat) /\ Len(h) = Len(w)
    /\ \A i \in 1..Len(h) : h[i] <= Len(S)
    /\ \A i, j \in 1..Len(h) : i <= j => h[i] <= h[j]
\* The bars of a tape: what BarsPartition says of them, with what makes it inductive.
BarsOk(s, a, w, h) ==
    /\ GoodBars(s, a) /\ Homes(Snapshot(a), w, h)
    /\ Total(Vols(Snapshot(a))) = QtyIn(w, DOMAIN w)
    /\ s.kind # "volume" => Counts(Snapshot(a), w, h)
    /\ s.kind = "time" => Buckets(s, Snapshot(a), w, h)

LEMMA BothAppend ==
  ASSUME NEW w \in Seq(TradeRec), NEW e \in TradeRec, NEW h \in Seq(Nat), Len(h) = Len(w),
         NEW m \in Nat
  PROVE  LET n == Len(w)
             u == Append(w, e)
             g == Append(h, m)
         IN /\ n \in Nat /\ u \in Seq(TradeRec) /\ g \in Seq(Nat) /\ Len(u) = n + 1 /\ Len(g) = n + 1
            /\ DOMAIN w = 1..n /\ DOMAIN h = 1..n /\ DOMAIN u = 1..(n + 1) /\ DOMAIN g = 1..(n + 1)
            /\ u[n + 1] = e /\ g[n + 1] = m
            /\ \A i \in 1..n : /\ u[i] = w[i] /\ g[i] = h[i] /\ h[i] \in Nat
                               /\ w[i] \in TradeRec
  BY AppendIs

\* One trade more, in the last bar.
LEMMA HomesStep ==
  ASSUME NEW S \in Seq(BarRec), NEW T \in Seq(BarRec), Len(S) <= Len(T),
         NEW w, NEW h, Homes(S, w, h), NEW e \in TradeRec
  PROVE  Homes(T, Append(w, e), Append(h, Len(T)))
<1> DEFINE n == Len(w)
           m == Len(T)
           u == Append(w, e)
           g == Append(h, m)
<1>1. m \in Nat /\ Len(S) \in Nat
  OBVIOUS
<1>2. /\ n \in Nat /\ u \in Seq(TradeRec) /\ g \in Seq(Nat) /\ Len(u) = n + 1 /\ Len(g) = n + 1
      /\ g[n + 1] = m /\ Len(h) = n
      /\ \A i \in 1..n : g[i] = h[i] /\ h[i] \in Nat
  BY <1>1, BothAppend DEF Homes
<1>3. \A i \in 1..n : h[i] <= Len(S) /\ \A j \in 1..n : i <= j => h[i] <= h[j]
  BY <1>2 DEF Homes
<1> HIDE DEF n, m, u, g
<1>4. \A i \in 1..(n + 1) : i = n + 1 \/ i \in 1..n
  BY <1>2
<1>5. \A i \in 1..(n + 1) : g[i] <= m
  BY <1>1, <1>2, <1>3, <1>4 DEF m
<1>6. ASSUME NEW i \in 1..(n + 1), NEW j \in 1..(n + 1), i <= j PROVE g[i] <= g[j]
  <2>1. CASE j = n + 1
    BY <2>1, <1>2, <1>5
  <2>2. CASE j # n + 1
    <3>1. i \in 1..n /\ j \in 1..n
      BY <2>2, <1>2, <1>6
    <3> QED BY <3>1, <1>2, <1>3, <1>6
  <2> QED BY <2>1, <2>2
<1> QED BY <1>2, <1>5, <1>6 DEF Homes, u, g, m

LEMMA CountsStep ==
  ASSUME NEW S \in Seq(BarRec), NEW T \in Seq(BarRec),
         NEW w, NEW h, Homes(S, w, h), NEW e \in TradeRec,
         Extends(S, T, e.qty) \/ Adds(S, T, e.qty), Counts(S, w, h)
  PROVE  Counts(T, Append(w, e), Append(h, Len(T)))
<1> DEFINE n == Len(w)
           m == Len(T)
           u == Append(w, e)
           g == Append(h, m)
           q == e.qty
<1>1. m \in Nat /\ Len(S) \in Nat /\ q \in Nat
  BY DEF TradeRec
<1>2. n \in Nat /\ w \in Seq(TradeRec) /\ h \in Seq(Nat) /\ Len(h) = n /\ DOMAIN w = 1..n
      /\ DOMAIN h = 1..n
  BY DEF Homes
<1>3. \A k : /\ Cardinality(Mine(h, k)) \in Nat
             /\ Mine(g, k) = IF m = k THEN Mine(h, k) \cup {n + 1} ELSE Mine(h, k)
             /\ Cardinality(Mine(g, k)) = Cardinality(Mine(h, k)) + IF m = k THEN 1 ELSE 0
             /\ n + 1 \notin Mine(h, k)
  BY <1>1, <1>2, MineAppend
<1>4. \A X : QtyIn(w, X) \in Int /\ QtyIn(u, X) = QtyIn(w, X) + (IF n + 1 \in X THEN q ELSE 0)
  BY <1>2, QtyAppend
<1>5. \A X : QtyIn(w, X \cup {n + 1}) = QtyIn(w, X)
  <2>1. n + 1 \notin DOMAIN w
    BY <1>2
  <2> HIDE DEF n
  <2> QED BY <2>1, QtySame
<1> HIDE DEF n, m, u, g, q
<1>6. \A k : k # m => /\ QtyIn(u, Mine(g, k)) = QtyIn(w, Mine(h, k))
                      /\ Cardinality(Mine(g, k)) = Cardinality(Mine(h, k))
  <2> SUFFICES ASSUME NEW k, k # m
               PROVE  /\ QtyIn(u, Mine(g, k)) = QtyIn(w, Mine(h, k))
                      /\ Cardinality(Mine(g, k)) = Cardinality(Mine(h, k))
    OBVIOUS
  <2>1. Mine(g, k) = Mine(h, k) /\ n + 1 \notin Mine(h, k)
    BY <1>3
  <2> QED BY <2>1, <1>4
<1>7. /\ QtyIn(u, Mine(g, m)) = QtyIn(w, Mine(h, m)) + q
      /\ Cardinality(Mine(g, m)) = Cardinality(Mine(h, m)) + 1
  <2>1. Mine(g, m) = Mine(h, m) \cup {n + 1}
    BY <1>3
  <2>2. QtyIn(u, Mine(h, m) \cup {n + 1}) = QtyIn(w, Mine(h, m)) + q
    BY <1>4, <1>5
  <2> QED BY <2>1, <2>2, <1>3
<1>8. ASSUME Adds(S, T, q) PROVE QtyIn(w, Mine(h, m)) = 0 /\ Cardinality(Mine(h, m)) = 0
  <2>1. m = Len(S) + 1
    BY <1>8 DEF Adds, m
  <2>2. \A i \in 1..n : h[i] <= Len(S) /\ h[i] \in Nat
    BY <1>2 DEF Homes
  <2>3. Mine(h, m) = {}
    BY <2>1, <2>2, <1>1, <1>2 DEF Mine
  <2>4. QtyIn(w, {}) = 0
    <3> DEFINE f == [i \in DOMAIN w |-> IF i \in {} THEN w[i].qty ELSE 0]
    <3>1. f \in [1..n -> Int] /\ \A k \in 1..n : f[k] = 0
      BY <1>2
    <3>2. DOMAIN f = 1..n
      BY <1>2
    <3> HIDE DEF f
    <3>3. f \in Seq(Int)
      BY <3>1, <1>2
    <3>4. Total(f) = 0
      BY <3>1, <3>2, <3>3, TotalZero
    <3> QED BY <3>4 DEF QtyIn, f
  <2> QED BY <2>3, <2>4, FS_EmptySet
<1>9. \A k \in 1..Len(S) : /\ S[k].vol = QtyIn(w, Mine(h, k))
                           /\ S[k].n = Cardinality(Mine(h, k))
  BY DEF Counts
<1>10. CASE Extends(S, T, q)
  <2>1. /\ m = Len(S) /\ m \in 1..m /\ \A k \in 1..(m - 1) : T[k] = S[k]
        /\ T[m].vol = S[m].vol + q /\ T[m].n = S[m].n + 1
    <3>1. Len(S) # 0
      BY <1>10 DEF Extends
    <3> QED BY <3>1, <1>1, <1>10 DEF Extends, m
  <2>2. ASSUME NEW k \in 1..m
        PROVE  T[k].vol = QtyIn(u, Mine(g, k)) /\ T[k].n = Cardinality(Mine(g, k))
    <3>1. CASE k = m
      BY <3>1, <2>1, <1>7, <1>9
    <3>2. CASE k # m
      <4>1. k \in 1..(m - 1)
        BY <3>2, <1>1
      <4> QED BY <4>1, <3>2, <2>1, <1>6, <1>9
    <3> QED BY <3>1, <3>2
  <2> QED BY <2>2 DEF Counts, u, g, m
<1>11. CASE Adds(S, T, q)
  <2>1. /\ m = Len(S) + 1 /\ \A k \in 1..Len(S) : T[k] = S[k]
        /\ T[m].vol = q /\ T[m].n = 1
    BY <1>11 DEF Adds, m
  <2>2. ASSUME NEW k \in 1..m
        PROVE  T[k].vol = QtyIn(u, Mine(g, k)) /\ T[k].n = Cardinality(Mine(g, k))
    <3>1. CASE k = m
      BY <3>1, <2>1, <1>1, <1>7, <1>8, <1>11
    <3>2. CASE k # m
      <4>1. k \in 1..Len(S)
        BY <3>2, <2>1, <1>1
      <4> QED BY <4>1, <3>2, <2>1, <1>6, <1>9
    <3> QED BY <3>1, <3>2
  <2> QED BY <2>2 DEF Counts, u, g, m
<1> QED BY <1>10, <1>11 DEF q

\* In time bars a trade extends the bar of its bucket or opens it.
LEMMA BucketsStep ==
  ASSUME NEW s, NEW S \in Seq(BarRec), NEW T \in Seq(BarRec),
         NEW w, NEW h, Homes(S, w, h), NEW e \in TradeRec, Buckets(s, S, w, h),
         T # <<>>, T[Len(T)].start = BucketStart(s, e.ts),
         IF S # <<>> /\ S[Len(S)].start = BucketStart(s, e.ts)
         THEN Extends(S, T, e.qty) /\ T[Len(T)].end = S[Len(S)].end
         ELSE Adds(S, T, e.qty) /\ T[Len(T)].end = BucketStart(s, e.ts) + s.interval
  PROVE  Buckets(s, T, Append(w, e), Append(h, Len(T)))
<1> DEFINE n == Len(w)
           m == Len(T)
           l == Len(S)
           u == Append(w, e)
           g == Append(h, m)
           b == BucketStart(s, e.ts)
<1>1. m \in Nat /\ l \in Nat /\ m # 0
  OBVIOUS
<1>2. /\ n \in Nat /\ Len(u) = n + 1 /\ g[n + 1] = m /\ u[n + 1] = e
      /\ \A i \in 1..n : g[i] = h[i] /\ u[i] = w[i]
  BY <1>1, BothAppend DEF Homes
<1>3. /\ \A i \in 1..n : h[i] \in 1..l /\ S[h[i]].start = BucketStart(s, w[i].ts)
      /\ \A k \in 1..l : S[k].end = S[k].start + s.interval /\ \E i \in 1..n : h[i] = k
      /\ \A k \in 1..(l - 1) : S[k].start # S[k + 1].start
  BY DEF Buckets
<1>4. \/ /\ m = l /\ \A k \in 1..(m - 1) : T[k] = S[k]
         /\ T[m].start = S[m].start /\ T[m].end = S[m].end /\ l \in 1..l
      \/ /\ m = l + 1 /\ \A k \in 1..l : T[k] = S[k]
         /\ T[m].end = b + s.interval /\ (l # 0 => S[l].start # b)
  <2>1. CASE S # <<>> /\ S[l].start = b
    <3>1. l # 0
      BY <2>1
    <3> QED BY <2>1, <3>1, <1>1 DEF Extends
  <2>2. CASE ~(S # <<>> /\ S[l].start = b)
    <3>1. l # 0 => S # <<>>
      OBVIOUS
    <3> QED BY <2>2, <3>1 DEF Adds
  <2> QED BY <2>1, <2>2
<1>5. T[m].start = b
  OBVIOUS
<1> HIDE DEF n, m, l, u, g, b
<1>6. l <= m /\ \A k \in 1..l : T[k].start = S[k].start /\ T[k].end = S[k].end
  <2>1. CASE m = l + 1 /\ \A k \in 1..l : T[k] = S[k]
    BY <2>1, <1>1
  <2>2. CASE m = l /\ (\A k \in 1..(m - 1) : T[k] = S[k])
             /\ T[m].start = S[m].start /\ T[m].end = S[m].end
    <3>1. \A k \in 1..l : k = m \/ k \in 1..(m - 1)
      BY <2>2, <1>1
    <3> QED BY <2>2, <3>1, <1>1
  <2> QED BY <1>4, <2>1, <2>2
<1>7. m \in 1..m /\ \A i \in 1..(n + 1) : i = n + 1 \/ i \in 1..n
  BY <1>1, <1>2
<1>8. ASSUME NEW i \in 1..(n + 1)
      PROVE  g[i] \in 1..m /\ T[g[i]].start = BucketStart(s, u[i].ts)
  <2>1. CASE i = n + 1
    BY <2>1, <1>2, <1>5, <1>7 DEF b
  <2>2. CASE i \in 1..n
    <3>1. g[i] \in 1..l /\ S[g[i]].start = BucketStart(s, u[i].ts)
      BY <2>2, <1>2, <1>3
    <3>2. g[i] \in 1..m
      BY <3>1, <1>1, <1>6
    <3> QED BY <3>1, <3>2, <1>6
  <2> QED BY <2>1, <2>2, <1>7
<1>9. ASSUME NEW k \in 1..m
      PROVE  T[k].end = T[k].start + s.interval /\ \E i \in 1..(n + 1) : g[i] = k
  <2>1. CASE k \in 1..l
    <3>1. PICK i \in 1..n : h[i] = k
      BY <2>1, <1>3
    <3>2. i \in 1..(n + 1) /\ g[i] = k
      BY <3>1, <1>2
    <3> QED BY <3>2, <2>1, <1>3, <1>6
  <2>2. CASE k \notin 1..l
    <3>1. m = l + 1 /\ k = m /\ T[m].end = b + s.interval
      BY <2>2, <1>1, <1>4
    <3>2. n + 1 \in 1..(n + 1)
      BY <1>2
    <3> QED BY <3>1, <3>2, <1>2, <1>5
  <2> QED BY <2>1, <2>2
<1>10. ASSUME NEW k \in 1..(m - 1) PROVE T[k].start # T[k + 1].start
  <2>1. CASE k + 1 \in 1..l
    <3>1. k \in 1..(l - 1) /\ k \in 1..l
      BY <2>1, <1>1
    <3> QED BY <3>1, <2>1, <1>3, <1>6
  <2>2. CASE k + 1 \notin 1..l
    <3>1. m = l + 1 /\ k = l /\ l # 0 /\ k + 1 = m /\ l \in 1..l
      BY <2>2, <1>1, <1>4
    <3>2. S[l].start # b
      BY <3>1, <1>1, <1>4
    <3> QED BY <3>1, <3>2, <1>5, <1>6
  <2> QED BY <2>1, <2>2
<1> QED BY <1>2, <1>8, <1>9, <1>10 DEF Buckets, u, g, m

\* One trade accepted by the spec keeps the bars in order.
LEMMA BarsOkStep ==
  ASSUME NEW s, GoodSpec(s), NEW a, NEW w, NEW h, BarsOk(s, a, w, h),
         NEW e \in TradeRec, Accepts(s, e.ts)
  PROVE  LET x == AddBar(s, a, e)
         IN BarsOk(s, x, Append(w, e), Append(h, Len(Snapshot(x))))
<1> DEFINE x == AddBar(s, a, e)
           S == Snapshot(a)
           T == Snapshot(x)
           u == Append(w, e)
           g == Append(h, Len(T))
<1>1. GoodBars(s, a)
  BY DEF BarsOk
<1>2. /\ GoodBars(s, x) /\ S \in Seq(BarRec) /\ T \in Seq(BarRec) /\ Len(S) <= Len(T)
      /\ Total(Vols(T)) = Total(Vols(S)) + e.qty
      /\ s.kind # "volume" => Extends(S, T, e.qty) \/ Adds(S, T, e.qty)
  BY <1>1, AddBarStep
<1>3. s.kind = "time" => x = AddTime(s, a, e)
  BY DEF AddBar
<1>4. Homes(S, w, h) /\ Total(Vols(S)) = QtyIn(w, DOMAIN w)
      /\ (s.kind # "volume" => Counts(S, w, h)) /\ (s.kind = "time" => Buckets(s, S, w, h))
  BY DEF BarsOk
<1>5. s.kind = "time" =>
         /\ T # <<>> /\ T[Len(T)].start = BucketStart(s, e.ts)
         /\ IF S # <<>> /\ S[Len(S)].start = BucketStart(s, e.ts)
            THEN Extends(S, T, e.qty) /\ T[Len(T)].end = S[Len(S)].end
            ELSE Adds(S, T, e.qty) /\ T[Len(T)].end = BucketStart(s, e.ts) + s.interval
  BY <1>1, <1>3, TimeStep
<1> HIDE DEF S, T
<1>6. Homes(T, u, g)
  BY <1>2, <1>4, HomesStep
<1>7. s.kind # "volume" => Counts(T, u, g)
  BY <1>2, <1>4, CountsStep
<1>8. s.kind = "time" => Buckets(s, T, u, g)
  BY <1>2, <1>4, <1>5, BucketsStep
<1>9. Total(Vols(T)) = QtyIn(u, DOMAIN u)
  <2>1. w \in Seq(TradeRec)
    BY <1>4 DEF Homes
  <2>2. DOMAIN u = 1..(Len(w) + 1) /\ DOMAIN w = 1..Len(w) /\ Len(w) + 1 \in DOMAIN u
    <3>1. Len(w) \in Nat
      BY <2>1
    <3> QED BY <2>1, <3>1, AppendIs
  <2>3. \A i \in DOMAIN w : i \in DOMAIN w <=> i \in DOMAIN u
    BY <2>1, <2>2
  <2>4. QtyIn(w, DOMAIN w) = QtyIn(w, DOMAIN u)
    BY <2>3, QtySame
  <2>5. QtyIn(u, DOMAIN u) = QtyIn(w, DOMAIN u) + e.qty
    BY <2>1, <2>2, QtyAppend
  <2> QED BY <2>4, <2>5, <1>2, <1>4
<1> QED BY <1>2, <1>6, <1>7, <1>8, <1>9 DEF BarsOk, T, g, u

LEMMA BarsOkStart ==
  ASSUME NEW s
  PROVE  BarsOk(s, NoBars, <<>>, <<>>)
<1>1. <<>> \in Seq(BarRec) /\ <<>> \in Seq(TradeRec) /\ <<>> \in Seq(Nat) /\ Len(<<>>) = 0
      /\ DOMAIN <<>> = {} /\ <<>> \o <<>> = <<>>
  OBVIOUS
<1>2. NoBars.bars = <<>> /\ NoBars.open = <<>> /\ NoBars \in AggRec
  BY <1>1 DEF NoBars, AggRec, OpenBars
<1>3. GoodBars(s, NoBars) /\ Snapshot(NoBars) = <<>>
  BY <1>1, <1>2 DEF GoodBars, Snapshot
<1>4. Vols(<<>>) = <<>> /\ QtyIn(<<>>, DOMAIN <<>>) = Total(<<>>)
  <2>1. [k \in DOMAIN <<>> |-> <<>>[k].vol] = <<>>
    OBVIOUS
  <2>2. [i \in DOMAIN <<>> |-> IF i \in DOMAIN <<>> THEN <<>>[i].qty ELSE 0] = <<>>
    OBVIOUS
  <2> QED BY <2>1, <2>2 DEF Vols, QtyIn
<1>5. 1..0 = {} /\ 1..(0 - 1) = {}
  OBVIOUS
<1>6. Homes(<<>>, <<>>, <<>>) /\ Counts(<<>>, <<>>, <<>>) /\ Buckets(s, <<>>, <<>>, <<>>)
  BY <1>1, <1>5 DEF Homes, Counts, Buckets
<1> QED BY <1>3, <1>4, <1>6 DEF BarsOk

\* The property, from what is kept.
LEMMA BarsOkImplies ==
  ASSUME GoodSpec(spec), BarsOk(spec, agg, Taken, home),
         \A i \in DOMAIN Taken : Accepts(spec, Taken[i].ts)
  PROVE  BarsPartition
<1> DEFINE S == TheBars
           n == Len(Taken)
<1>1. /\ GoodBars(spec, agg) /\ Homes(S, Taken, home)
      /\ Total(Vols(S)) = QtyIn(Taken, DOMAIN Taken)
      /\ spec.kind # "volume" => Counts(S, Taken, home)
      /\ spec.kind = "time" => Buckets(spec, S, Taken, home)
  BY DEF BarsOk, TheBars
<1>2. agg \in AggRec /\ S \in Seq(BarRec) /\ DOMAIN S = 1..Len(S) /\ Len(S) \in Nat
  <2>1. agg \in AggRec /\ S \in Seq(BarRec)
    BY <1>1, SnapshotIs DEF GoodBars, TheBars
  <2> QED BY <2>1
<1>3. /\ Taken \in Seq(TradeRec) /\ n \in Nat /\ Len(home) = n /\ DOMAIN Taken = 1..n
      /\ DOMAIN home = 1..n /\ \A i, j \in 1..n : i <= j => home[i] <= home[j]
  <2>1. Taken \in Seq(TradeRec) /\ home \in Seq(Nat) /\ Len(home) = n
        /\ \A i, j \in 1..Len(home) : i <= j => home[i] <= home[j]
    BY <1>1 DEF Homes
  <2> HIDE DEF TheBars
  <2> QED BY <2>1
<1>4. \A X : QtyOver(X) = QtyIn(Taken, X)
  BY DEF QtyOver, QtyIn
<1>5. ASSUME NEW k \in DOMAIN S
      PROVE  /\ OpenBar(spec, S[k]) \/ ClosedBar(spec, S[k])
             /\ k <= Len(agg.bars) => ClosedBar(spec, S[k])
             /\ S[k] \in BarRec
  <2>1. agg.bars \in Seq(BarRec) /\ \A j \in DOMAIN agg.bars : ClosedBar(spec, agg.bars[j])
    BY <1>1, <1>2, AggIs DEF GoodBars
  <2>2. CASE agg.open = <<>>
    <3>1. S = agg.bars
      BY <2>2, <1>2, SnapshotIs DEF TheBars
    <3> QED BY <3>1, <2>1 DEF ClosedBar
  <2>3. CASE agg.open # <<>>
    <3> DEFINE b == agg.open[1]
    <3>1. S = Append(agg.bars, b) /\ b \in BarRec /\ OpenBar(spec, b)
      BY <2>3, <1>1, <1>2, AggIs, SnapshotIs DEF TheBars, GoodBars
    <3> HIDE DEF b
    <3>2. /\ Len(agg.bars) \in Nat /\ DOMAIN S = 1..(Len(agg.bars) + 1) /\ S[Len(agg.bars) + 1] = b
          /\ DOMAIN agg.bars = 1..Len(agg.bars) /\ \A j \in 1..Len(agg.bars) : S[j] = agg.bars[j]
      BY <2>1, <3>1, AppendIs
    <3> HIDE DEF S
    <3>3. CASE k = Len(agg.bars) + 1
      BY <3>1, <3>2, <3>3
    <3>4. CASE k # Len(agg.bars) + 1
      <4>1. k \in 1..Len(agg.bars)
        BY <3>2, <3>4, <1>5
      <4> QED BY <4>1, <2>1, <3>2 DEF ClosedBar
    <3> QED BY SMTT(30), <3>3, <3>4
  <2> QED BY <2>2, <2>3
<1>6. ASSUME NEW k \in DOMAIN S
      PROVE  LET b == S[k]
                 mine == {i \in DOMAIN home : home[i] = k}
             IN /\ spec.kind = "volume" \/ (b.vol = QtyOver(mine) /\ b.n = Cardinality(mine))
                /\ b.low <= Min({b.open, b.close}) /\ Max({b.open, b.close}) <= b.high
                /\ spec.kind = "time" /\ spec.interval < Day =>
                     \A i \in mine : b.start <= Taken[i].ts /\ Taken[i].ts < b.end
                /\ spec.kind = "tick" => b.n <= spec.count /\ (k <= Len(agg.bars) => b.n = spec.count)
                /\ spec.kind = "volume" =>
                     b.vol <= spec.count /\ (k <= Len(agg.bars) => b.vol = spec.count)
                /\ spec.kind = "range" => b.high - b.low <= spec.band
  <2> DEFINE b == S[k]
             mine == Mine(home, k)
  <2> HIDE DEF S
  <2>1. k \in 1..Len(S) /\ (OpenBar(spec, b) \/ ClosedBar(spec, b)) /\ b \in BarRec
        /\ (k <= Len(agg.bars) => ClosedBar(spec, b))
    BY <1>2, <1>5
  <2>2. spec.kind = "volume" \/ (b.vol = QtyOver(mine) /\ b.n = Cardinality(mine))
    BY <2>1, <1>1, <1>4 DEF Counts
  <2>3. b.low <= Min({b.open, b.close}) /\ Max({b.open, b.close}) <= b.high
    <3>1. Shape(b)
      BY <2>1 DEF OpenBar, ClosedBar
    <3>2. b.low \in Int /\ b.high \in Int /\ b.open \in Int /\ b.close \in Int
      BY <2>1 DEF BarRec
    <3> HIDE DEF b
    <3>3. /\ Max({b.open, b.close}) = IF b.open > b.close THEN b.open ELSE b.close
          /\ Min({b.open, b.close}) = IF b.open < b.close THEN b.open ELSE b.close
      BY <3>2, TwoExtremes
    <3> QED BY <3>1, <3>2, <3>3 DEF Shape
  <2>4. ASSUME spec.kind = "time", spec.interval < Day, NEW i \in mine
        PROVE  b.start <= Taken[i].ts /\ Taken[i].ts < b.end
    <3>1. i \in 1..n /\ home[i] = k
      BY <1>3 DEF Mine
    <3>2. b.start = BucketStart(spec, Taken[i].ts) /\ b.end = b.start + spec.interval
      BY <2>1, <2>4, <3>1, <1>1 DEF Buckets
    <3>3. Taken[i].ts \in Int /\ Accepts(spec, Taken[i].ts)
      <4>1. Taken[i] \in TradeRec
        BY <3>1, <1>3
      <4> QED BY <4>1, <3>1, <1>3 DEF TradeRec
    <3> QED BY <2>4, <3>2, <3>3, BucketFacts
  <2>5. spec.kind = "tick" => b.n <= spec.count /\ (k <= Len(agg.bars) => b.n = spec.count)
    <3>1. b.n \in Int /\ spec.count \in Int
      BY <2>1 DEF BarRec, GoodSpec, SpecRec
    <3> QED BY <2>1, <3>1 DEF OpenBar, ClosedBar
  <2>6. spec.kind = "volume" => b.vol <= spec.count /\ (k <= Len(agg.bars) => b.vol = spec.count)
    <3>1. b.vol \in Int /\ spec.count \in Int
      BY <2>1 DEF BarRec, GoodSpec, SpecRec
    <3> QED BY <2>1, <3>1 DEF OpenBar, ClosedBar
  <2>7. spec.kind = "range" => b.high - b.low <= spec.band
    BY <2>1 DEF OpenBar, ClosedBar
  <2> QED BY <2>2, <2>3, <2>4, <2>5, <2>6, <2>7 DEF Mine
<1>7. Total([k \in DOMAIN TheBars |-> TheBars[k].vol]) = QtyOver(DOMAIN Taken)
  BY <1>1, <1>4 DEF Vols
<1> QED BY <1>3, <1>6, <1>7 DEF BarsPartition

-----------------------------------------------------------------------------
(* The value area. *)

-----------------------------------------------------------------------------
(* The volume of some levels of a profile. *)

\* Volume is a sum over a set of rows, whatever their order.
LEMMA VolumeIs ==
  ASSUME NEW D, IsFiniteSet(D), NEW p \in [D -> Int], NEW h, IsSumOver(h, D, p)
  PROVE  \A L \in SUBSET D : Volume(p, L) = h[L]
<1> SUFFICES ASSUME NEW L \in SUBSET D PROVE Volume(p, L) = h[L]
  OBVIOUS
<1> DEFINE one(S) == CHOOSE x \in S : TRUE
           Fix(it) == it = [S \in SUBSET L |-> IF S = {} THEN 0
                                               ELSE LET x == one(S) IN it[S \ {x}] + p[x]]
           it == CHOOSE it : Fix(it)
<1>1. /\ h \in [SUBSET D -> Int] /\ h[{}] = 0
      /\ \A S \in SUBSET D : \A x \in S : h[S] = p[x] + h[S \ {x}]
  BY DEF IsSumOver
<1>2. \A S \in SUBSET L : S # {} => one(S) \in S /\ S \in SUBSET D /\ S \ {one(S)} \in SUBSET D
                                    /\ p[one(S)] \in Int
  OBVIOUS
<1> HIDE DEF one
<1> DEFINE g == [S \in SUBSET L |-> h[S]]
<1>3. Fix(g)
  <2>1. ASSUME NEW S \in SUBSET L
        PROVE  h[S] = IF S = {} THEN 0 ELSE LET x == one(S) IN g[S \ {x}] + p[x]
    <3>1. CASE S = {}
      BY <3>1, <1>1
    <3>2. CASE S # {}
      <4> DEFINE x == one(S)
      <4>1. x \in S /\ S \in SUBSET D /\ p[x] \in Int /\ S \ {x} \in SUBSET D
        BY <3>2, <1>2
      <4> HIDE DEF x
      <4>2. S \ {x} \in SUBSET L
        OBVIOUS
      <4>3. g[S \ {x}] = h[S \ {x}]
        BY <4>2
      <4>4. h[S] = p[x] + h[S \ {x}] /\ h[S \ {x}] \in Int
        BY <4>1, <1>1
      <4>5. h[S] = g[S \ {x}] + p[x]
        BY <4>1, <4>3, <4>4
      <4> QED BY <4>5, <3>2 DEF x
    <3> QED BY <3>1, <3>2
  <2> QED BY <2>1
<1>4. Fix(it)
  <2> HIDE DEF Fix, g
  <2> QED BY <1>3, Zenon
<1>5. Volume(p, L) = it[L]
  BY DEF Volume, FoldSet, MapThenFoldSet, one
<1> HIDE DEF it, g
<1>6. it[{}] = 0
  BY <1>4
<1>7. ASSUME NEW S \in SUBSET L, S # {}
      PROVE  \E x \in S : it[S] = it[S \ {x}] + p[x]
  BY <1>2, <1>4, <1>7
<1>8. it[L] = h[L]
  <2> HIDE DEF Fix
  <2> DEFINE r == [x \in L |-> p[x]]
             k == [S \in SUBSET L |-> h[S]]
  <2>1. IsFiniteSet(L) /\ r \in [L -> Int]
    BY FS_Subset
  <2>2. IsSumOver(k, L, r)
    <3>1. k \in [SUBSET L -> Int] /\ k[{}] = 0
      BY <1>1
    <3>2. ASSUME NEW S \in SUBSET L, NEW x \in S PROVE k[S] = r[x] + k[S \ {x}]
      <4>1. k[S] = h[S] /\ k[S \ {x}] = h[S \ {x}] /\ r[x] = p[x]
        OBVIOUS
      <4>2. h[S] = p[x] + h[S \ {x}]
        BY <1>1
      <4> QED BY <4>1, <4>2
    <3> QED BY <3>1, <3>2 DEF IsSumOver
  <2>3. ASSUME NEW S \in SUBSET L, S # {}
        PROVE  \E x \in S : it[S] = it[S \ {x}] + r[x]
    <3>1. PICK x \in S : it[S] = it[S \ {x}] + p[x]
      BY <1>7, <2>3
    <3>2. r[x] = p[x]
      OBVIOUS
    <3> QED BY <3>1, <3>2
  <2>4. k[L] = h[L]
    OBVIOUS
  <2> HIDE DEF r, k
  <2>5. AddsUp(it, L, r)
    BY <1>6, <2>3 DEF AddsUp
  <2>6. \A S \in SUBSET L : it[S] = k[S]
    BY <2>1, <2>2, <2>5, SumOverUnique
  <2> QED BY <2>4, <2>6
<1> QED BY <1>5, <1>8

LEMMA VolumeFacts ==
  ASSUME NEW D, IsFiniteSet(D), NEW p \in [D -> Nat]
  PROVE  /\ Volume(p, {}) = 0
         /\ \A L \in SUBSET D : /\ Volume(p, L) \in Nat
                                /\ \A x \in L : Volume(p, L) = p[x] + Volume(p, L \ {x})
<1>1. PICK h : IsSumOver(h, D, p)
  BY SumOverExists
<1>2. p \in [D -> Int]
  OBVIOUS
<1>3. \A L \in SUBSET D : Volume(p, L) = h[L]
  BY <1>1, <1>2, VolumeIs
<1>4. /\ h \in [SUBSET D -> Int] /\ h[{}] = 0
      /\ \A S \in SUBSET D : \A x \in S : h[S] = p[x] + h[S \ {x}]
  BY <1>1 DEF IsSumOver
<1> DEFINE ok(n) == \A L \in SUBSET D : Cardinality(L) = n => h[L] \in Nat
           N == {n \in Nat : ok(n)}
<1>5. 0 \in N
  <2>1. \A L \in SUBSET D : Cardinality(L) = 0 => L = {}
    BY FS_Subset, FS_EmptySet
  <2>2. h[{}] \in Nat
    BY <1>4
  <2> QED BY <2>1, <2>2
<1>6. ASSUME NEW n \in Nat, n \in N PROVE n + 1 \in N
  <2> SUFFICES ASSUME NEW L \in SUBSET D, Cardinality(L) = n + 1 PROVE h[L] \in Nat
    OBVIOUS
  <2>1. IsFiniteSet(L)
    BY FS_Subset
  <2>2. L # {}
    BY FS_EmptySet
  <2>3. PICK x \in L : TRUE
    BY <2>2
  <2>4. Cardinality(L \ {x}) = n /\ L \ {x} \in SUBSET D
    <3>1. Cardinality(L \ {x}) = Cardinality(L) - 1
      BY <2>1, FS_RemoveElement, Zenon
    <3> QED BY <3>1
  <2>5. h[L \ {x}] \in Nat /\ p[x] \in Nat
    BY <2>4, <1>6
  <2> QED BY <2>5, <1>4
<1>7. \A n \in Nat : n \in N
  <2> HIDE DEF N
  <2> QED BY <1>5, <1>6, Induction
<1>8. \A L \in SUBSET D : h[L] \in Nat
  BY <1>7, FS_Subset, FS_CardinalityType
<1>9. \A L \in SUBSET D : \A x \in L : L \ {x} \in SUBSET D
  OBVIOUS
<1> QED BY <1>3, <1>4, <1>8, <1>9

-----------------------------------------------------------------------------
(* The point of control and the rows next to an area. *)

\* The point of control is a row with the most volume.
LEMMA PocFacts ==
  ASSUME NEW D \in FiniteSets_Int, D # {}, NEW p \in [D -> Nat]
  PROVE  Poc(p) \in D /\ \A x \in D : p[x] <= p[Poc(p)]
<1>1. D \subseteq Int /\ IsFiniteSet(D)
  BY DEF FiniteSets_Int
<1> DEFINE V == {p[x] : x \in D}
           best == {x \in D : \A y \in D : p[y] <= p[x]}
<1>2. V \subseteq Int /\ V # {} /\ IsFiniteSet(V)
  <2>1. p \in Surjection(D, V)
    BY DEF Surjection
  <2>2. IsFiniteSet(V)
    <3> HIDE DEF V
    <3> QED BY <1>1, <2>1, FS_Surjection
  <2> QED BY <2>2
<1>3. Max(V) \in V /\ \A y \in V : y <= Max(V)
  <2> HIDE DEF V
  <2> QED BY <1>2, Extremes
<1>4. PICK x \in D : p[x] = Max(V)
  BY <1>3
<1>5. x \in best
  BY <1>3, <1>4
<1>6. best \subseteq Int /\ IsFiniteSet(best) /\ best # {}
  BY <1>1, <1>5, FS_Subset
<1>7. Min(best) \in best
  <2> HIDE DEF best
  <2> QED BY <1>6, Extremes
<1>8. Poc(p) = Min(best)
  BY DEF Poc
<1> QED BY <1>7, <1>8

\* Widening takes in exactly one row, the next one on its side.
LEMMA RowsNext ==
  ASSUME NEW D \in FiniteSets_Int, NEW p \in [D -> Nat], NEW a \in D \X D,
         a[1] <= a[2], Rows(p, a[1], a[2]) # D
  PROVE  LET b == Widen(p, a[1], a[2])
         IN \E x \in D : /\ b \in D \X D /\ b[1] <= a[1] /\ a[2] <= b[2]
                         /\ x \in {b[1], b[2]} /\ x \notin Rows(p, a[1], a[2])
                         /\ Rows(p, b[1], b[2]) = Rows(p, a[1], a[2]) \cup {x}
<1> DEFINE lo == a[1]
           hi == a[2]
           below == {x \in D : x < lo}
           above == {x \in D : x > hi}
           R == Rows(p, lo, hi)
<1>1. D \subseteq Int /\ IsFiniteSet(D) /\ DOMAIN p = D /\ lo \in D /\ hi \in D
  BY DEF FiniteSets_Int
<1>2. R = {x \in D : lo <= x /\ x <= hi}
  BY DEF Rows
<1>3. below # {} \/ above # {}
  <2> SUFFICES ASSUME below = {}, above = {} PROVE FALSE
    OBVIOUS
  <2>1. ASSUME NEW x \in D PROVE lo <= x /\ x <= hi
    <3>1. x \in Int /\ lo \in Int /\ hi \in Int /\ ~(x < lo) /\ ~(x > hi)
      BY <1>1
    <3> HIDE DEF lo, hi
    <3> QED BY <3>1
  <2>2. R = D
    BY <2>1, <1>2
  <2> QED BY <2>2
<1>4. ASSUME below # {} PROVE Max(below) \in below /\ \A y \in below : y <= Max(below)
  <2>1. below \subseteq Int /\ IsFiniteSet(below)
    BY <1>1, FS_Subset
  <2> HIDE DEF below
  <2> QED BY <1>4, <2>1, Extremes
<1>5. ASSUME above # {} PROVE Min(above) \in above /\ \A y \in above : Min(above) <= y
  <2>1. above \subseteq Int /\ IsFiniteSet(above)
    BY <1>1, FS_Subset
  <2> HIDE DEF above
  <2> QED BY <1>5, <2>1, Extremes
<1>6. \/ above # {} /\ Widen(p, lo, hi) = <<lo, Min(above)>>
      \/ below # {} /\ Widen(p, lo, hi) = <<Max(below), hi>>
  BY <1>1, <1>3 DEF Widen
<1>7. CASE above # {} /\ Widen(p, lo, hi) = <<lo, Min(above)>>
  <2> DEFINE x == Min(above)
  <2>1. x \in D /\ x > hi /\ \A y \in D : y > hi => x <= y
    BY <1>5, <1>7
  <2>2. Rows(p, lo, x) = {y \in D : lo <= y /\ y <= x}
    BY <1>1 DEF Rows
  <2> HIDE DEF x, lo, hi, R
  <2>3. lo <= hi
    BY DEF lo, hi
  <2>4. Rows(p, lo, x) = R \cup {x} /\ x \notin R
    <3>1. lo \in Int /\ hi \in Int /\ x \in Int
      BY <1>1, <2>1
    <3>2. ASSUME NEW y \in D
          PROVE  y \in Rows(p, lo, x) <=> y \in R \/ y = x
      <4>1. y \in Int
        BY <1>1
      <4>2. y \in R <=> lo <= y /\ y <= hi
        BY <1>2
      <4>3. y \in Rows(p, lo, x) <=> lo <= y /\ y <= x
        BY <2>2
      <4>4. y > hi => x <= y
        BY <2>1
      <4> QED BY <2>1, <2>3, <3>1, <4>1, <4>2, <4>3, <4>4
    <3>3. x \notin R
      BY <1>2, <2>1, <3>1
    <3>4. R \subseteq D /\ Rows(p, lo, x) \subseteq D /\ x \in D
      BY <1>2, <2>1, <2>2
    <3> QED BY <3>2, <3>3, <3>4
  <2>5. Widen(p, lo, hi) = <<lo, x>>
    BY <1>7 DEF x
  <2>6. <<lo, x>> \in D \X D /\ lo <= lo /\ hi <= x
    BY <1>1, <2>1
  <2> QED BY <2>1, <2>4, <2>5, <2>6 DEF lo, hi, R
<1>8. CASE below # {} /\ Widen(p, lo, hi) = <<Max(below), hi>>
  <2> DEFINE x == Max(below)
  <2>1. x \in D /\ x < lo /\ \A y \in D : y < lo => y <= x
    BY <1>4, <1>8
  <2>2. Rows(p, x, hi) = {y \in D : x <= y /\ y <= hi}
    BY <1>1 DEF Rows
  <2> HIDE DEF x, lo, hi, R
  <2>3. lo <= hi
    BY DEF lo, hi
  <2>4. Rows(p, x, hi) = R \cup {x} /\ x \notin R
    <3>1. lo \in Int /\ hi \in Int /\ x \in Int
      BY <1>1, <2>1
    <3>2. ASSUME NEW y \in D
          PROVE  y \in Rows(p, x, hi) <=> y \in R \/ y = x
      <4>1. y \in Int
        BY <1>1
      <4>2. y \in R <=> lo <= y /\ y <= hi
        BY <1>2
      <4>3. y \in Rows(p, x, hi) <=> x <= y /\ y <= hi
        BY <2>2
      <4>4. y < lo => y <= x
        BY <2>1
      <4> QED BY <2>1, <2>3, <3>1, <4>1, <4>2, <4>3, <4>4
    <3>3. x \notin R
      BY <1>2, <2>1, <3>1
    <3>4. R \subseteq D /\ Rows(p, x, hi) \subseteq D /\ x \in D
      BY <1>2, <2>1, <2>2
    <3> QED BY <3>2, <3>3, <3>4
  <2>5. Widen(p, lo, hi) = <<x, hi>>
    BY <1>8 DEF x
  <2>6. <<x, hi>> \in D \X D /\ x <= lo /\ hi <= hi
    BY <1>1, <2>1
  <2> QED BY <2>1, <2>4, <2>5, <2>6 DEF lo, hi, R
<1> QED BY <1>6, <1>7, <1>8

\* 70% rounded up.
LEMMA TargetFacts ==
  ASSUME NEW p, Volume(p, DOMAIN p) \in Nat
  PROVE  LET v == Volume(p, DOMAIN p)
         IN /\ Target(p) \in Int /\ Target(p) <= v
            /\ \A x \in Int : x >= Target(p) <=> 100 * x >= 70 * v
<1> DEFINE v == Volume(p, DOMAIN p)
           y == v * 70 + 99
           t == y \div 100
<1>1. v \in Nat /\ y \in Int
  OBVIOUS
<1>2. Target(p) = t
  BY DEF Target
<1>3. t \in Int /\ t * 100 <= y /\ y < t * 100 + 100
  <2>1. 100 \in Nat \ {0}
    OBVIOUS
  <2> HIDE DEF y
  <2> QED BY <1>1, <2>1, DivFacts
<1> HIDE DEF t, v
<1> QED BY <1>1, <1>2, <1>3 DEF v

\* The areas the walk may come to.
AreaOk(p, D, a) == a \in D \X D /\ a[1] <= Poc(p) /\ Poc(p) <= a[2]
\* It would not be enough without one of its ends, the one the walk preferred.
Needed(p, a) ==
    \/ a = <<Poc(p), Poc(p)>>
    \/ \E x \in {a[1], a[2]} : /\ x # Poc(p)
                               /\ Volume(p, Rows(p, a[1], a[2]) \ {x}) < Target(p)
                               /\ Beats(p, a[1], a[2], x)
\* One turn of the loop.
Turn(p, a) == IF Enough(p, a) THEN a ELSE Widen(p, a[1], a[2])

\* The row a turn takes in has more volume than the row on the other side.
LEMMA WidenBeats ==
  ASSUME NEW D \in FiniteSets_Int, NEW p \in [D -> Nat], NEW a \in D \X D,
         a[1] <= a[2], Rows(p, a[1], a[2]) # D
  PROVE  LET b == Widen(p, a[1], a[2])
         IN \A x \in {b[1], b[2]} : x \notin Rows(p, a[1], a[2]) => Beats(p, b[1], b[2], x)
<1> DEFINE lo == a[1]
           hi == a[2]
<1>0. /\ IsFiniteSet(D) /\ D \subseteq Int /\ lo \in D /\ hi \in D /\ lo <= hi
      /\ \E y \in D : y < lo \/ y > hi
  <2>1. IsFiniteSet(D) /\ D \subseteq Int /\ DOMAIN p = D /\ lo \in D /\ hi \in D
    BY DEF FiniteSets_Int
  <2>2. Rows(p, lo, hi) # D /\ lo <= hi
    OBVIOUS
  <2> HIDE DEF lo, hi
  <2>3. PICK y \in D : y \notin Rows(p, lo, hi)
    BY <2>1, <2>2 DEF Rows
  <2>4. ~(lo <= y /\ y <= hi) /\ y \in Int /\ lo \in Int /\ hi \in Int
    BY <2>1, <2>3 DEF Rows
  <2> QED BY <2>1, <2>2, <2>3, <2>4
<1> SUFFICES ASSUME NEW x \in {Widen(p, lo, hi)[1], Widen(p, lo, hi)[2]},
                    x \notin Rows(p, lo, hi)
             PROVE  Beats(p, Widen(p, lo, hi)[1], Widen(p, lo, hi)[2], x)
  OBVIOUS
<1> HIDE DEF lo, hi
<1> DEFINE below == {y \in DOMAIN p : y < lo}
           above == {y \in DOMAIN p : y > hi}
           b == Widen(p, lo, hi)
<1>1. DOMAIN p = D /\ lo \in Int /\ hi \in Int
  BY <1>0
<1>2. lo \in Rows(p, lo, hi) /\ hi \in Rows(p, lo, hi)
  BY <1>0, <1>1 DEF Rows
<1>3. x # lo /\ x # hi
  BY <1>2
<1>4. below \subseteq Int /\ above \subseteq Int /\ IsFiniteSet(below) /\ IsFiniteSet(above)
  <2>1. below \subseteq D /\ above \subseteq D
    BY <1>1
  <2> HIDE DEF below, above
  <2> QED BY <1>0, <2>1, FS_Subset
<1>5. /\ below # {} => Max(below) \in below /\ \A y \in below : y <= Max(below)
      /\ above # {} => Min(above) \in above /\ \A y \in above : Min(above) <= y
  <2> HIDE DEF below, above
  <2> QED BY <1>4, Extremes
<1>6. /\ below = {} => b = <<lo, Min(above)>>
      /\ below # {} /\ above = {} => b = <<Max(below), hi>>
      /\ below # {} /\ above # {} /\ p[Min(above)] > p[Max(below)] => b = <<lo, Min(above)>>
      /\ below # {} /\ above # {} /\ ~(p[Min(above)] > p[Max(below)]) => b = <<Max(below), hi>>
  BY DEF Widen
<1>7. below # {} \/ above # {}
  BY <1>0, <1>1
<1>8. \A y \in D : (y < lo <=> y \in below) /\ (y > hi <=> y \in above) /\ y \in Int /\ p[y] \in Nat
  BY <1>0, <1>1
<1>9. \A y : y \in below \/ y \in above => y \in D
  BY <1>1
<1> HIDE DEF below, above, b
<1> SUFFICES ASSUME NEW y \in D, \A z \in D : ~(b[2] < z /\ z < y) /\ ~(y < z /\ z < b[1])
             PROVE  /\ y > b[2] /\ x = b[1] => p[y] <= p[x]
                    /\ y < b[1] /\ x = b[2] => p[y] < p[x]
  BY <1>1 DEF Beats, b
<1>10. x \in {b[1], b[2]}
  BY DEF b
<1>11. CASE b = <<lo, Min(above)>> /\ below = {}
  <2>1. b[1] = lo /\ b[2] = Min(above) /\ x = b[2] /\ x # b[1]
    BY <1>3, <1>10, <1>11
  <2> QED BY <1>8, <1>11, <2>1
<1>12. CASE b = <<Max(below), hi>> /\ above = {}
  <2>1. b[1] = Max(below) /\ b[2] = hi /\ x = b[1] /\ x # b[2]
    BY <1>3, <1>10, <1>12
  <2> QED BY <1>8, <1>12, <2>1
<1>13. CASE /\ b = <<lo, Min(above)>> /\ below # {} /\ above # {}
            /\ p[Min(above)] > p[Max(below)]
  <2>1. b[1] = lo /\ b[2] = Min(above) /\ x = b[2] /\ x # b[1]
    BY <1>3, <1>10, <1>13
  <2>2. Max(below) \in below /\ Max(below) \in D /\ Max(below) < lo /\ Max(below) \in Int /\ y \in Int
    BY <1>5, <1>8, <1>9, <1>13
  <2>3. ASSUME y < lo PROVE y = Max(below)
    <3>1. y <= Max(below) /\ ~(y < Max(below))
      BY <1>5, <1>8, <1>13, <2>1, <2>2, <2>3
    <3> QED BY <2>2, <3>1
  <2>4. y < lo => p[y] < p[x]
    BY <1>13, <2>1, <2>3
  <2> QED BY <2>1, <2>4
<1>14. CASE /\ b = <<Max(below), hi>> /\ below # {} /\ above # {}
            /\ ~(p[Min(above)] > p[Max(below)])
  <2>1. b[1] = Max(below) /\ b[2] = hi /\ x = b[1] /\ x # b[2]
    BY <1>3, <1>10, <1>14
  <2>2. /\ Min(above) \in above /\ Min(above) \in D /\ Min(above) > hi /\ Max(below) \in D
        /\ Min(above) \in Int /\ y \in Int /\ p[Min(above)] \in Int /\ p[Max(below)] \in Int
    <3>1. Min(above) \in above /\ Max(below) \in below
      BY <1>5, <1>14
    <3>2. Min(above) \in D /\ Max(below) \in D
      BY <1>9, <3>1
    <3>3. p[Min(above)] \in Nat /\ p[Max(below)] \in Nat /\ Min(above) \in Int /\ y \in Int
      BY <1>8, <3>2
    <3> QED BY <1>8, <3>1, <3>2, <3>3
  <2>3. ASSUME y > hi PROVE y = Min(above)
    <3>1. Min(above) <= y /\ ~(Min(above) < y)
      BY <1>5, <1>8, <1>14, <2>1, <2>2, <2>3
    <3> QED BY <2>2, <3>1
  <2>4. y > hi => p[y] <= p[x]
    <3>1. p[Min(above)] <= p[Max(below)]
      BY <1>14, <2>2
    <3> QED BY <2>1, <2>3, <3>1
  <2> QED BY <2>1, <2>4
<1> QED BY <1>6, <1>7, <1>11, <1>12, <1>13, <1>14

\* A turn keeps the area around the POC and without a row to spare, and takes in a
\* row while the target is not reached.
LEMMA TurnFacts ==
  ASSUME NEW D \in FiniteSets_Int, D # {}, NEW p \in [D -> Nat \ {0}], NEW a, AreaOk(p, D, a)
  PROVE  LET b == Turn(p, a)
         IN /\ AreaOk(p, D, b) /\ (Needed(p, a) => Needed(p, b))
            /\ ~Enough(p, a) => Cardinality(Rows(p, b[1], b[2]))
                                  = Cardinality(Rows(p, a[1], a[2])) + 1
<1>1. /\ IsFiniteSet(D) /\ D \subseteq Int /\ p \in [D -> Nat] /\ DOMAIN p = D
  BY DEF FiniteSets_Int
<1>2. Volume(p, D) \in Nat
  BY <1>1, VolumeFacts
<1>3. Poc(p) \in D
  BY <1>1, PocFacts
<1>4. CASE Enough(p, a)
  BY <1>4 DEF Turn
<1>5. CASE ~Enough(p, a)
  <2> DEFINE b == Widen(p, a[1], a[2])
             R == Rows(p, a[1], a[2])
             T == Rows(p, b[1], b[2])
  <2>1. Turn(p, a) = b
    BY <1>5 DEF Turn
  <2>2. R \in SUBSET D /\ a \in D \X D
    BY <1>1 DEF Rows, AreaOk
  <2>3. a[1] \in Int /\ a[2] \in Int /\ Poc(p) \in Int /\ a[1] <= Poc(p) /\ Poc(p) <= a[2]
    BY <1>1, <1>3, <2>2 DEF AreaOk
  <2>4. ~(Volume(p, R) >= Target(p))
    BY <1>5 DEF Enough
  <2>5. Target(p) \in Int /\ Target(p) <= Volume(p, D)
    BY <1>1, <1>2, TargetFacts
  <2>6. R # D
    BY <1>2, <2>4, <2>5
  <2>7. PICK x \in D : /\ b \in D \X D /\ b[1] <= a[1] /\ a[2] <= b[2]
                       /\ x \in {b[1], b[2]} /\ x \notin R
                       /\ T = R \cup {x}
    <3>1. a[1] <= a[2]
      BY <2>3
    <3> QED BY <1>1, <2>2, <2>6, <3>1, RowsNext
  <2>8. b[1] \in Int /\ b[2] \in Int
    BY <1>1, <2>7
  <2>9. Poc(p) \in R
    BY <1>1, <1>3, <2>3 DEF Rows
  <2>15. Beats(p, b[1], b[2], x)
    <3>1. a[1] <= a[2]
      BY <2>3
    <3> QED BY <1>1, <2>2, <2>6, <2>7, <3>1, WidenBeats
  <2> HIDE DEF b, R, T
  <2>10. AreaOk(p, D, b)
    BY <2>3, <2>7, <2>8 DEF AreaOk
  <2>11. IsFiniteSet(R)
    BY <1>1, <2>2, FS_Subset
  <2>12. Cardinality(T) = Cardinality(R) + 1
    BY <2>7, <2>11, FS_AddElement
  <2>13. T \ {x} = R /\ Volume(p, R) < Target(p)
    <3>1. Volume(p, R) \in Nat
      BY <1>1, <2>2, VolumeFacts
    <3> QED BY <2>4, <2>5, <2>7, <3>1
  <2>14. Needed(p, b)
    <3>1. x # Poc(p)
      BY <2>7, <2>9
    <3> QED BY <2>7, <2>13, <2>15, <3>1 DEF Needed, T
  <2> QED BY <2>1, <2>10, <2>12, <2>14 DEF R, T
<1> QED BY <1>4, <1>5

\* The walk as a sequence of turns.
IsWalk(f, p) ==
    /\ f = [n \in 0..Cardinality(DOMAIN p) |-> f[n]]
    /\ f[0] = <<Poc(p), Poc(p)>>
    /\ \A n \in 1..Cardinality(DOMAIN p) : f[n] = Turn(p, f[n - 1])

\* The loop, turn by turn.
LEMMA WalkExists ==
  ASSUME NEW D \in FiniteSets_Int, D # {}, NEW p \in [D -> Nat \ {0}]
  PROVE  \E f : IsWalk(f, p)
<1> DEFINE n == Cardinality(D)
           V == {a \in D \X D : AreaOk(p, D, a)}
           F == [a \in V |-> [x \in {0} |-> Turn(p, a)]]
           w == [k \in 1..n |-> 0]
           base == <<Poc(p), Poc(p)>>
<1>1. /\ IsFiniteSet(D) /\ D \subseteq Int /\ p \in [D -> Nat] /\ DOMAIN p = D
  BY DEF FiniteSets_Int
<1>2. n \in Nat
  BY <1>1, FS_CardinalityType
<1>3. base \in V
  <2>1. Poc(p) \in D /\ Poc(p) \in Int
    BY <1>1, PocFacts
  <2> QED BY <2>1 DEF AreaOk
<1>4. \A a \in V : Turn(p, a) \in V
  <2> SUFFICES ASSUME NEW a \in V PROVE Turn(p, a) \in V
    OBVIOUS
  <2>1. AreaOk(p, D, Turn(p, a))
    BY TurnFacts
  <2> QED BY <2>1 DEF AreaOk
<1> HIDE DEF n
<1>5. w \in Seq({0}) /\ Len(w) = n /\ \A k \in 1..n : w[k] = 0
  <2>1. w \in [1..n -> {0}]
    OBVIOUS
  <2>2. \A k \in 1..n : w[k] = 0
    OBVIOUS
  <2> HIDE DEF w
  <2> QED BY <2>1, <2>2, <1>2
<1> HIDE DEF V
<1>6. IsStep(F, {0}, V) /\ \A a \in V : F[a][0] = Turn(p, a)
  BY <1>4 DEF IsStep
<1> HIDE DEF F, w, base
<1>7. PICK f : IsRun(f, F, base, w) /\ f \in [0..n -> V]
  BY <1>3, <1>5, <1>6, RunExists
<1>8. f = [k \in 0..n |-> f[k]] /\ f[0] = base
  BY <1>5, <1>7 DEF IsRun
<1>9. ASSUME NEW k \in 1..n PROVE f[k] = Turn(p, f[k - 1])
  <2>1. f[k] = F[f[k - 1]][w[k]] /\ w[k] = 0
    BY <1>5, <1>7 DEF IsRun
  <2>2. k - 1 \in 0..n
    BY <1>2
  <2> QED BY <2>1, <2>2, <1>6, <1>7
<1>10. IsWalk(f, p)
  BY <1>1, <1>8, <1>9 DEF IsWalk, n, base
<1> QED BY <1>10

LEMMA WalkIs ==
  ASSUME NEW D \in FiniteSets_Int, D # {}, NEW p \in [D -> Nat \ {0}]
  PROVE  \E f : IsWalk(f, p) /\ Walk(p) = f[Cardinality(DOMAIN p)]
<1> DEFINE Fix(f) == f = [n \in 0..Cardinality(DOMAIN p) |->
                            IF n = 0 THEN <<Poc(p), Poc(p)>>
                            ELSE IF Enough(p, f[n - 1]) THEN f[n - 1]
                            ELSE Widen(p, f[n - 1][1], f[n - 1][2])]
           f == CHOOSE f : Fix(f)
<1>0. Cardinality(DOMAIN p) \in Nat
  BY FS_CardinalityType DEF FiniteSets_Int
<1>1. PICK g : IsWalk(g, p)
  BY WalkExists
<1> DEFINE N == Cardinality(DOMAIN p)
           Eq(h) == h = [n \in 0..N |-> IF n = 0 THEN <<Poc(p), Poc(p)>> ELSE Turn(p, h[n - 1])]
<1>100. \A h : Fix(h) <=> Eq(h)
  BY DEF Turn
<1>2. Fix(g)
  <2> HIDE DEF N, Fix
  <2>1. /\ g = [n \in 0..N |-> g[n]] /\ g[0] = <<Poc(p), Poc(p)>>
        /\ \A n \in 1..N : g[n] = Turn(p, g[n - 1])
    BY <1>1 DEF IsWalk, N
  <2>2. \A n \in 0..N : n # 0 => n \in 1..N
    BY <1>0 DEF N
  <2>3. Eq(g)
    BY <2>1, <2>2
  <2> QED BY <2>3, <1>100
<1>3. Fix(f)
  <2> HIDE DEF Fix
  <2> QED BY <1>2, Zenon
<1>4. Walk(p) = f[Cardinality(DOMAIN p)]
  BY DEF Walk
<1> HIDE DEF f
<1>5. IsWalk(f, p)
  <2> HIDE DEF N, Fix
  <2>1. Eq(f)
    BY <1>3, <1>100
  <2>2. \A n \in 1..N : n # 0 /\ n \in 0..N
    BY <1>0 DEF N
  <2>3. 0 \in 0..N
    BY <1>0 DEF N
  <2>4. \A n \in 0..N : f[n] = IF n = 0 THEN <<Poc(p), Poc(p)>> ELSE Turn(p, f[n - 1])
    BY <2>1
  <2>5. f = [n \in 0..N |-> f[n]]
    BY <2>1
  <2> HIDE DEF Eq
  <2> QED BY <2>2, <2>3, <2>4, <2>5 DEF IsWalk, N
<1> QED BY <1>4, <1>5

\* There are as many turns as rows: the walk ends with enough.
LEMMA WalkFacts ==
  ASSUME NEW D \in FiniteSets_Int, D # {}, NEW p \in [D -> Nat \ {0}]
  PROVE  AreaOk(p, D, Walk(p)) /\ Needed(p, Walk(p)) /\ Enough(p, Walk(p))
<1> DEFINE n == Cardinality(D)
<1>1. /\ IsFiniteSet(D) /\ D \subseteq Int /\ p \in [D -> Nat] /\ DOMAIN p = D
  BY DEF FiniteSets_Int
<1>2. n \in Nat
  BY <1>1, FS_CardinalityType
<1>3. PICK f : IsWalk(f, p) /\ Walk(p) = f[n]
  BY <1>1, WalkIs
<1> HIDE DEF n
<1>4. f[0] = <<Poc(p), Poc(p)>> /\ \A k \in 1..n : f[k] = Turn(p, f[k - 1])
  BY <1>1, <1>3 DEF IsWalk, n
<1> DEFINE R(k) == Rows(p, f[k][1], f[k][2])
           P(k) == /\ AreaOk(p, D, f[k]) /\ Needed(p, f[k])
                   /\ Enough(p, f[k]) \/ Cardinality(R(k)) >= k + 1
           S == {k \in Nat : k <= n => P(k)}
<1>5. \A a : IsFiniteSet(Rows(p, a[1], a[2])) /\ Cardinality(Rows(p, a[1], a[2])) \in Nat
             /\ Rows(p, a[1], a[2]) \in SUBSET D
  <2> SUFFICES ASSUME NEW a PROVE IsFiniteSet(Rows(p, a[1], a[2]))
             /\ Cardinality(Rows(p, a[1], a[2])) \in Nat
             /\ Rows(p, a[1], a[2]) \in SUBSET D
    OBVIOUS
  <2>1. Rows(p, a[1], a[2]) \in SUBSET D
    BY <1>1 DEF Rows
  <2> QED BY <2>1, <1>1, FS_Subset, FS_CardinalityType
<1>6. 0 \in S
  <2>1. Poc(p) \in D /\ Poc(p) \in Int
    BY <1>1, PocFacts
  <2>2. AreaOk(p, D, f[0]) /\ Needed(p, f[0])
    BY <1>4, <2>1 DEF AreaOk, Needed
  <2>3. Poc(p) \in R(0)
    BY <1>1, <1>4, <2>1 DEF Rows
  <2>4. Cardinality(R(0)) # 0 /\ Cardinality(R(0)) \in Nat
    BY <1>5, <2>3, FS_EmptySet
  <2> HIDE DEF R
  <2> QED BY <2>2, <2>4
<1>7. ASSUME NEW k \in Nat, k \in S PROVE k + 1 \in S
  <2> SUFFICES ASSUME k + 1 <= n PROVE P(k + 1)
    OBVIOUS
  <2>1. k + 1 \in 1..n /\ (k + 1) - 1 = k /\ k <= n
    BY <1>2
  <2>2. P(k) /\ f[k + 1] = Turn(p, f[k])
    BY <2>1, <1>4, <1>7
  <2> DEFINE a == f[k]
             b == f[k + 1]
  <2> HIDE DEF a, b
  <2>3. /\ AreaOk(p, D, b) /\ (Needed(p, a) => Needed(p, b))
        /\ ~Enough(p, a) => Cardinality(Rows(p, b[1], b[2]))
                              = Cardinality(Rows(p, a[1], a[2])) + 1
    BY <2>2, TurnFacts DEF a, b
  <2>4. Enough(p, a) => b = a
    BY <2>2 DEF a, b, Turn
  <2>5. Enough(p, a) \/ Cardinality(Rows(p, a[1], a[2])) >= k + 1
    BY <2>2 DEF a
  <2>6. Enough(p, b) \/ Cardinality(Rows(p, b[1], b[2])) >= (k + 1) + 1
    <3>1. Cardinality(Rows(p, a[1], a[2])) \in Nat
      BY <1>5
    <3> QED BY <2>3, <2>4, <2>5, <3>1
  <2> QED BY <2>2, <2>3, <2>6 DEF a, b
<1>8. \A k \in Nat : k \in S
  <2> HIDE DEF S
  <2> QED BY <1>6, <1>7, Induction
<1>9. P(n)
  BY <1>2, <1>8
<1>10. ~(Cardinality(R(n)) >= n + 1)
  <2>1. Cardinality(R(n)) <= n /\ Cardinality(R(n)) \in Nat
    BY <1>1, <1>5, FS_Subset DEF n
  <2> HIDE DEF R
  <2> QED BY <2>1, <1>2
<1> QED BY <1>3, <1>9, <1>10

-----------------------------------------------------------------------------
(* What a value area is. *)

\* AreaCovers, of a profile.
Covers(p) ==
    DOMAIN p # {} =>
        LET a == ValueArea(p)
            rows == {x \in DOMAIN p : a[1] <= x /\ x <= a[3]}
        IN /\ {a[1], a[2], a[3]} \subseteq rows
           /\ 100 * Volume(p, rows) >= 70 * Volume(p, DOMAIN p)
           /\ \/ rows = {a[2]}
              \/ \E x \in {a[1], a[3]} \ {a[2]} :
                    /\ 100 * Volume(p, rows \ {x}) < 70 * Volume(p, DOMAIN p)
                    /\ Beats(p, a[1], a[3], x)
           /\ \A x \in DOMAIN p : p[x] <= p[a[2]]

LEMMA AreaFacts ==
  ASSUME NEW p \in Profiles
  PROVE  Covers(p)
<1> SUFFICES ASSUME DOMAIN p # {} PROVE Covers(p)
  BY DEF Covers
<1>1. PICK D \in FiniteSets_Int : p \in [D -> Nat \ {0}]
  BY DEF Profiles
<1>2. /\ IsFiniteSet(D) /\ D \subseteq Int /\ p \in [D -> Nat] /\ DOMAIN p = D /\ D # {}
  BY <1>1 DEF FiniteSets_Int
<1> DEFINE w == Walk(p)
           lo == w[1]
           hi == w[2]
           poc == Poc(p)
           rows == {x \in D : lo <= x /\ x <= hi}
<1>3. AreaOk(p, D, w) /\ Needed(p, w) /\ Enough(p, w)
  BY <1>1, <1>2, WalkFacts
<1>4. poc \in D /\ \A x \in D : p[x] <= p[poc]
  BY <1>2, PocFacts
<1>5. lo \in D /\ hi \in D /\ lo <= poc /\ poc <= hi /\ w = <<lo, hi>>
  BY <1>3 DEF AreaOk
<1>6. rows = Rows(p, lo, hi)
  BY <1>2 DEF Rows
<1>7. ValueArea(p) = <<lo, poc, hi>>
  BY <1>2 DEF ValueArea
<1> HIDE DEF w, lo, hi, poc
<1>8. lo \in Int /\ hi \in Int /\ poc \in Int /\ lo <= hi
  BY <1>2, <1>4, <1>5
<1>9. {lo, poc, hi} \subseteq rows /\ rows \in SUBSET D
  BY <1>4, <1>5, <1>8
<1>10. /\ Volume(p, D) \in Nat /\ Volume(p, rows) \in Nat
       /\ \A x : Volume(p, rows \ {x}) \in Nat
  <2>1. \A x : rows \ {x} \in SUBSET D
    OBVIOUS
  <2> HIDE DEF rows
  <2> QED BY <1>2, <1>9, <2>1, VolumeFacts
<1>11. /\ Target(p) \in Int
       /\ \A x \in Int : x >= Target(p) <=> 100 * x >= 70 * Volume(p, D)
  BY <1>2, <1>10, TargetFacts
<1>12. 100 * Volume(p, rows) >= 70 * Volume(p, D)
  <2>1. Volume(p, rows) >= Target(p)
    BY <1>3, <1>6 DEF Enough, lo, hi
  <2> HIDE DEF rows
  <2> QED BY <2>1, <1>10, <1>11
<1>13. \/ rows = {poc}
       \/ \E x \in {lo, hi} \ {poc} : /\ 100 * Volume(p, rows \ {x}) < 70 * Volume(p, D)
                                       /\ Beats(p, lo, hi, x)
  <2>1. CASE w = <<poc, poc>>
    <3>1. lo = poc /\ hi = poc
      BY <2>1 DEF lo, hi
    <3>2. \A x \in D : x \in Int
      BY <1>2
    <3>3. \A x \in D : lo <= x /\ x <= hi <=> x = poc
      BY <3>1, <3>2, <1>8
    <3> QED BY <3>3, <1>4
  <2>2. CASE \E x \in {lo, hi} : /\ x # poc /\ Volume(p, rows \ {x}) < Target(p)
                                  /\ Beats(p, lo, hi, x)
    <3>1. PICK x \in {lo, hi} : /\ x # poc /\ Volume(p, rows \ {x}) < Target(p)
                                /\ Beats(p, lo, hi, x)
      BY <2>2
    <3> DEFINE v == Volume(p, rows \ {x})
    <3>2. v \in Nat /\ v < Target(p)
      BY <3>1, <1>10
    <3> HIDE DEF v, rows
    <3>3. ~(100 * v >= 70 * Volume(p, D))
      BY <3>2, <1>11
    <3>4. 100 * v < 70 * Volume(p, D)
      BY <3>2, <3>3, <1>10
    <3> QED BY <3>1, <3>4 DEF v
  <2> QED BY <2>1, <2>2, <1>3, <1>6 DEF Needed, lo, hi, poc
<1> HIDE DEF rows
<1>14. \A a : a = <<lo, poc, hi>> => a[1] = lo /\ a[2] = poc /\ a[3] = hi
  OBVIOUS
<1> QED BY <1>2, <1>4, <1>7, <1>9, <1>12, <1>13, <1>14 DEF Covers, rows

-----------------------------------------------------------------------------
(* How many trades the loops over the bars have used. *)

-----------------------------------------------------------------------------
(* Prefixes of a sequence. *)

\* A prefix of 1..n.
LEMMA DownClosed ==
  ASSUME NEW n \in Nat, NEW B, B \subseteq 1..n,
         \A j \in B : \A i \in 1..n : i <= j => i \in B
  PROVE  B = 1..Cardinality(B) /\ Cardinality(B) \in 0..n
<1>1. CASE B = {}
  <2>1. Cardinality(B) = 0 /\ 1..0 = {}
    BY <1>1, FS_EmptySet
  <2> QED BY <2>1, <1>1
<1>2. CASE B # {}
  <2>1. Max(B) \in B /\ \A y \in B : y <= Max(B)
    BY <1>2, MaxFacts
  <2> DEFINE m == Max(B)
  <2>2. m \in 1..n
    BY <2>1
  <2> HIDE DEF m
  <2>3. B = 1..m
    <3>1. \A i \in B : i \in 1..m
      BY <2>1, <2>2 DEF m
    <3>2. \A i \in 1..m : i \in B
      <4>1. \A i \in 1..m : i \in 1..n /\ i <= m
        BY <2>2
      <4>2. m \in B
        BY <2>1 DEF m
      <4> QED BY <4>1, <4>2
    <3> QED BY <3>1, <3>2
  <2>4. Cardinality(1..m) = m
    BY <2>2, FS_Interval
  <2> QED BY <2>2, <2>3, <2>4
<1> QED BY <1>1, <1>2

\* Picking neighbours is cutting a piece out.
LEMMA PickRange ==
  ASSUME NEW A, NEW w \in Seq(A), NEW a \in Nat, NEW b \in Nat, a <= b, b <= Len(w)
  PROVE  Pick(w, (a + 1)..b) = SubSeq(w, a + 1, b)
<1> DEFINE P == (a + 1)..b
           n == Len(w)
<1>1. n \in Nat /\ DOMAIN w = 1..n
  OBVIOUS
<1>2. P \subseteq 1..n
  BY <1>1
<1>3. Cardinality(P) = b - a
  <2>1. CASE a = b
    <3>1. P = {}
      BY <2>1
    <3> QED BY <3>1, <2>1, FS_EmptySet
  <2>2. CASE a < b
    <3>1. a + 1 \in Int /\ b \in Int /\ ~(a + 1 > b) /\ b - (a + 1) + 1 = b - a
      BY <2>2
    <3> QED BY <3>1, FS_Interval
  <2> QED BY <2>1, <2>2
<1>4. ASSUME NEW k \in 1..(b - a) PROVE Nth(P, k) = a + k
  <2>1. a + k \in P
    BY <1>4
  <2>2. UpTo(P, a + k) = (a + 1)..(a + k)
    BY <1>4 DEF UpTo
  <2>3. Cardinality((a + 1)..(a + k)) = k
    <3>1. a + 1 \in Int /\ a + k \in Int /\ ~(a + 1 > a + k) /\ (a + k) - (a + 1) + 1 = k
      OBVIOUS
    <3> QED BY <3>1, FS_Interval
  <2> DEFINE x == a + k
  <2>4. \A y \in P : Nth(P, Cardinality(UpTo(P, y))) = y
    <3> HIDE DEF P
    <3> QED BY <1>1, <1>2, NthFacts
  <2> HIDE DEF P
  <2>5. Nth(P, Cardinality(UpTo(P, x))) = x
    BY <2>1, <2>4
  <2>6. Cardinality(UpTo(P, x)) = k
    BY <2>2, <2>3
  <2> QED BY <2>5, <2>6
<1>5. Pick(w, P) = [k \in 1..(b - a) |-> w[a + k]]
  <2>1. Pick(w, P) = [k \in 1..(b - a) |-> w[Nth(P, k)]]
    <3> HIDE DEF P
    <3> QED BY <1>3 DEF Pick
  <2> QED BY <2>1, <1>4
<1>6. SubSeq(w, a + 1, b) = [k \in 1..(b - a) |-> w[a + k]]
  <2>1. SubSeq(w, a + 1, b) = [k \in 1..(1 + b - (a + 1)) |-> w[k + (a + 1) - 1]]
    OBVIOUS
  <2>2. 1 + b - (a + 1) = b - a
    OBVIOUS
  <2>3. \A k \in 1..(b - a) : k + (a + 1) - 1 = a + k
    OBVIOUS
  <2> QED BY <2>1, <2>2, <2>3
<1> QED BY <1>5, <1>6

-----------------------------------------------------------------------------
(* How many trades the loops over the bars have used. *)

\* The trades of the bars up to bar k.
Below(h, k) == {i \in DOMAIN h : h[i] <= k}

\* Each bar holds its trades and ends before the next begins.
BarsFit(S, w, h) ==
    /\ Homes(S, w, h) /\ Ordered(w) /\ S \in Seq(BarRec)
    /\ \A i \in 1..Len(w) : /\ h[i] \in 1..Len(S)
                            /\ S[h[i]].start <= w[i].ts /\ w[i].ts < S[h[i]].end
    /\ \A k \in 1..Len(S) : \E i \in 1..Len(w) : h[i] = k
    /\ \A k \in 1..(Len(S) - 1) : S[k].end <= S[k + 1].start

LEMMA BelowFacts ==
  ASSUME NEW S, NEW w, NEW h, Homes(S, w, h)
  PROVE  \A k \in Int :
            Below(h, k) = 1..Cardinality(Below(h, k))
                /\ Cardinality(Below(h, k)) \in 0..Len(w)
<1> SUFFICES ASSUME NEW k \in Int
             PROVE  Below(h, k) = 1..Cardinality(Below(h, k))
                    /\ Cardinality(Below(h, k)) \in 0..Len(w)
  OBVIOUS
<1> DEFINE n == Len(w)
           B == Below(h, k)
<1>1. n \in Nat /\ DOMAIN h = 1..n /\ (\A i \in 1..n : h[i] \in Nat)
      /\ \A i, j \in 1..n : i <= j => h[i] <= h[j]
  BY DEF Homes
<1>2. B \subseteq 1..n
  BY <1>1 DEF Below
<1>3. ASSUME NEW j \in B, NEW i \in 1..n, i <= j PROVE i \in B
  <2>1. j \in 1..n /\ h[j] <= k
    BY <1>1 DEF Below
  <2>2. h[i] <= h[j] /\ h[i] \in Nat /\ h[j] \in Nat
    BY <2>1, <1>1, <1>3
  <2>3. h[i] <= k
    BY <2>1, <2>2
  <2> QED BY <2>3, <1>1 DEF Below
<1> HIDE DEF n, B
<1> QED BY <1>1, <1>2, <1>3, DownClosed DEF n, B

\* Where the loop stops after bar k when it had used a trades before it.
Stop(w, S, k, a) == Max({n \in a..Len(w) : \A j \in (a + 1)..n : w[j].ts < S[k].end})

\* Having used the trades of the bars before it, the loop stops after those of bar k.
LEMMA StopIs ==
  ASSUME NEW S, NEW w, NEW h, BarsFit(S, w, h), NEW k \in 1..Len(S)
  PROVE  Stop(w, S, k, Cardinality(Below(h, k - 1))) = Cardinality(Below(h, k))
<1> DEFINE n == Len(w)
           L == Len(S)
           a == Cardinality(Below(h, k - 1))
           b == Cardinality(Below(h, k))
           Q == {m \in a..n : \A j \in (a + 1)..m : w[j].ts < S[k].end}
<1>1. /\ S \in Seq(BarRec) /\ w \in Seq(TradeRec) /\ h \in Seq(Nat) /\ Len(h) = n
      /\ \A i, j \in 1..n : i <= j => h[i] <= h[j]
      /\ Homes(S, w, h)
  BY DEF BarsFit, Homes
<1>2. /\ n \in Nat /\ L \in Nat /\ DOMAIN h = 1..n /\ k \in Nat /\ k - 1 \in Nat
      /\ \A i \in 1..n : h[i] \in Nat /\ w[i] \in TradeRec
      /\ \A i \in 1..L : S[i] \in BarRec
  BY <1>1
<1>3. /\ \A i \in 1..n : w[i].ts \in Int
      /\ \A i \in 1..L : S[i].start \in Int /\ S[i].end \in Int
  BY <1>2 DEF TradeRec, BarRec
<1>4. /\ \A i \in 1..n : h[i] \in 1..L /\ S[h[i]].start <= w[i].ts /\ w[i].ts < S[h[i]].end
      /\ \A i \in 1..L : \E j \in 1..n : h[j] = i
      /\ \A i \in 1..(L - 1) : S[i].end <= S[i + 1].start
  BY DEF BarsFit
<1>5. \A i, j \in 1..n : i <= j => w[i].ts <= w[j].ts
  <2>1. DOMAIN w = 1..n
    BY <1>1
  <2> QED BY <2>1 DEF BarsFit, Ordered
<1>6. /\ a \in 0..n /\ b \in 0..n
      /\ \A i \in 1..n : (i <= a <=> h[i] <= k - 1) /\ (i <= b <=> h[i] <= k)
  <2>1. /\ Below(h, k - 1) = 1..a /\ a \in 0..n
        /\ Below(h, k) = 1..b /\ b \in 0..n
    <3>1. \A x \in Int : Below(h, x) = 1..Cardinality(Below(h, x))
                           /\ Cardinality(Below(h, x)) \in 0..n
      BY <1>1, BelowFacts
    <3>2. k - 1 \in Int /\ k \in Int
      BY <1>2
    <3> HIDE DEF n
    <3> QED BY <3>1, <3>2
  <2>2. \A i \in 1..n : (i \in 1..a <=> h[i] <= k - 1) /\ (i \in 1..b <=> h[i] <= k)
    BY <2>1, <1>2 DEF Below
  <2> HIDE DEF a, b, n
  <2>3. \A i \in 1..n : (i \in 1..a <=> i <= a) /\ (i \in 1..b <=> i <= b)
    BY <2>1, <1>2
  <2> QED BY <2>1, <2>2, <2>3
<1> HIDE DEF a, b, n, L
<1>7. a <= b
  <2>1. CASE a = 0
    BY <2>1, <1>6
  <2>2. CASE a # 0
    <3>1. a \in 1..n /\ a <= a
      BY <2>2, <1>2, <1>6
    <3>2. h[a] <= k - 1 /\ h[a] \in Nat
      BY <3>1, <1>2, <1>6
    <3>3. h[a] <= k
      BY <3>2, <1>2
    <3> QED BY <3>1, <3>3, <1>6
  <2> QED BY <2>1, <2>2
<1>8. b \in Q
  <2>1. ASSUME NEW j \in (a + 1)..b PROVE w[j].ts < S[k].end
    <3>1. j \in 1..n /\ ~(j <= a) /\ j <= b
      BY <1>2, <1>6
    <3>2. ~(h[j] <= k - 1) /\ h[j] <= k /\ h[j] \in Nat
      BY <3>1, <1>2, <1>6
    <3>3. h[j] = k
      BY <3>2, <1>2
    <3> QED BY <3>1, <3>3, <1>4
  <2>2. b \in a..n
    BY <1>2, <1>6, <1>7
  <2> QED BY <2>1, <2>2
<1>9. ASSUME NEW m \in Q PROVE m <= b
  <2> SUFFICES ASSUME ~(m <= b) PROVE FALSE
    OBVIOUS
  <2> DEFINE j == b + 1
  <2>1. m \in a..n /\ j \in (a + 1)..m /\ j \in 1..n /\ ~(j <= b)
    BY <1>2, <1>6, <1>7, <1>9
  <2>2. w[j].ts < S[k].end
    BY <2>1, <1>9
  <2> HIDE DEF j
  <2>3. ~(h[j] <= k) /\ h[j] \in 1..L
    BY <2>1, <1>4, <1>6
  <2>4. k \in 1..(L - 1) /\ k + 1 \in 1..L /\ k \in 1..L /\ h[j] >= k + 1
    BY <2>3, <1>2 DEF L
  <2>5. PICK i \in 1..n : h[i] = k + 1
    BY <2>4, <1>4
  <2>6. S[k].end <= S[k + 1].start /\ S[k + 1].start <= w[i].ts
    BY <2>4, <2>5, <1>4
  <2>7. CASE i <= j
    <3>1. w[i].ts <= w[j].ts
      BY <2>1, <2>7, <1>5
    <3> QED BY <3>1, <2>1, <2>2, <2>4, <2>6, <1>3
  <2>8. CASE ~(i <= j)
    <3>1. j <= i
      BY <2>1, <2>8
    <3>2. h[j] <= h[i] /\ h[j] \in Nat
      BY <3>1, <2>1, <1>1, <1>2
    <3>3. h[j] = k + 1
      BY <3>2, <2>4, <2>5, <1>2
    <3>4. S[k + 1].start <= w[j].ts
      BY <3>3, <2>1, <1>4
    <3> QED BY <3>4, <2>1, <2>2, <2>4, <2>6, <1>3
  <2> QED BY <2>7, <2>8
<1>10. Max(Q) = b
  <2>1. Q \subseteq 0..n /\ Q # {}
    <3>1. Q \subseteq a..n
      OBVIOUS
    <3>2. a..n \subseteq 0..n
      BY <1>2, <1>6
    <3> HIDE DEF Q
    <3> QED BY <3>1, <3>2, <1>8
  <2>2. Max(Q) \in Q /\ \A y \in Q : y <= Max(Q)
    <3> HIDE DEF Q
    <3> QED BY <2>1, <1>2, LargestFacts
  <2>3. b <= Max(Q) /\ Max(Q) <= b /\ Max(Q) \in 0..n
    BY <2>1, <2>2, <1>8, <1>9
  <2> HIDE DEF Q
  <2> QED BY <2>3, <1>2, <1>6
<1> QED BY <1>10 DEF Stop, a, b, n

\* So what it has used after bar k are the trades of the bars up to k.
LEMMA UsedIs ==
  ASSUME NEW S, NEW w, NEW h, BarsFit(S, w, h)
  PROVE  Used(w, S) = [k \in 1..Len(S) |-> Cardinality(Below(h, k))]
<1> DEFINE L == Len(S)
           Fix(u) == u = [i \in 0..Len(S) |->
                            IF i = 0 THEN 0
                            ELSE Max({n \in u[i - 1]..Len(w) :
                                        \A j \in (u[i - 1] + 1)..n : w[j].ts < S[i].end})]
           Eq(u) == u = [i \in 0..L |-> IF i = 0 THEN 0 ELSE Stop(w, S, i, u[i - 1])]
           f == CHOOSE u : Fix(u)
           c == [i \in 0..L |-> Cardinality(Below(h, i))]
<1>1. L \in Nat
  BY DEF BarsFit
<1>2. \A u : Fix(u) <=> Eq(u)
  BY DEF Stop
<1>3. Used(w, S) = [i \in 1..Len(S) |-> f[i]]
  BY DEF Used
<1> HIDE DEF Fix, L
<1>4. \A i \in 1..L : i - 1 \in 0..L /\ i \in 0..L /\ i # 0
  BY <1>1
<1>5. Cardinality(Below(h, 0)) = 0
  <2>1. \A i \in DOMAIN h : h[i] >= 1
    <3>1. h \in Seq(Nat) /\ Len(h) = Len(w) /\ S \in Seq(BarRec)
          /\ \A i \in 1..Len(w) : h[i] \in 1..Len(S)
      BY DEF BarsFit, Homes
    <3>2. DOMAIN h = 1..Len(w)
      BY <3>1
    <3> QED BY <3>1, <3>2
  <2>2. \A i \in DOMAIN h : h[i] \in Int
    <3>1. h \in Seq(Nat)
      BY DEF BarsFit, Homes
    <3> QED BY <3>1
  <2>3. Below(h, 0) = {}
    BY <2>1, <2>2 DEF Below
  <2> QED BY <2>3, FS_EmptySet
<1>6. \A i \in 1..L : Stop(w, S, i, Cardinality(Below(h, i - 1))) = Cardinality(Below(h, i))
  BY StopIs DEF L
<1>7. Eq(c)
  <2>1. ASSUME NEW i \in 0..L
        PROVE  Cardinality(Below(h, i)) = IF i = 0 THEN 0 ELSE Stop(w, S, i, c[i - 1])
    <3>1. CASE i = 0
      BY <3>1, <1>5
    <3>2. CASE i # 0
      <4>1. i \in 1..L
        BY <3>2, <1>1
      <4>2. c[i - 1] = Cardinality(Below(h, i - 1))
        BY <4>1, <1>4
      <4> HIDE DEF c
      <4> QED BY <4>1, <4>2, <3>2, <1>6
    <3> QED BY <3>1, <3>2
  <2> QED BY <2>1
<1>8. Eq(f)
  <2>1. Fix(c)
    <3> HIDE DEF Eq
    <3> QED BY <1>2, <1>7
  <2>2. Fix(f)
    <3> HIDE DEF Eq, c
    <3> QED BY <2>1, Zenon
  <2> HIDE DEF Eq, f
  <2> QED BY <2>2, <1>2
<1> HIDE DEF f, c
<1>9. f[0] = 0 /\ \A i \in 1..L : f[i] = Stop(w, S, i, f[i - 1])
  BY <1>1, <1>4, <1>8
<1> DEFINE T == {i \in Nat : i <= L => f[i] = Cardinality(Below(h, i))}
<1>10. 0 \in T
  BY <1>5, <1>9
<1>11. ASSUME NEW i \in Nat, i \in T PROVE i + 1 \in T
  <2> SUFFICES ASSUME i + 1 <= L PROVE f[i + 1] = Cardinality(Below(h, i + 1))
    OBVIOUS
  <2>1. i + 1 \in 1..L /\ (i + 1) - 1 = i /\ i <= L
    BY <1>1
  <2>2. f[i] = Cardinality(Below(h, i))
    BY <2>1, <1>11
  <2>3. f[i + 1] = Stop(w, S, i + 1, f[i])
    BY <2>1, <1>9
  <2>4. Stop(w, S, i + 1, Cardinality(Below(h, i))) = Cardinality(Below(h, i + 1))
    BY <2>1, <1>6
  <2> QED BY <2>2, <2>3, <2>4
<1>12. \A i \in Nat : i \in T
  <2> HIDE DEF T
  <2> QED BY <1>10, <1>11, Induction
<1>13. \A i \in 1..L : f[i] = Cardinality(Below(h, i))
  BY <1>1, <1>12
<1> QED BY <1>3, <1>13 DEF L

-----------------------------------------------------------------------------
(* The page: the tape, and the flow of its orchestrator. *)

\* Running an orchestrator over any tape in its range.
LEMMA OrchFacts ==
  ASSUME NEW from \in Int, NEW to \in Int
  PROVE  \A w \in Seq(TradeRec) :
            Ordered(w) /\ Within(w, from, to) =>
                IsOrch(OrchRun(Orchestrator(Boundaries(from, to)), w), from, to, w)
<1> DEFINE b == Boundaries(from, to)
           o == Orchestrator(b)
           S == {w \in Seq(TradeRec) : Ordered(w) /\ Within(w, from, to) =>
                                          IsOrch(OrchRun(o, w), from, to, w)}
<1>1. b \in Seq(Int) /\ o \in OrchRec(b)
  <2>1. b = Ascending(Edges(from, to)) /\ Edges(from, to) \subseteq Int /\ IsFiniteSet(Edges(from, to))
    BY BoundariesAre
  <2>2. b \in Seq(Int)
    BY <2>1, SortedFacts
  <2> HIDE DEF b
  <2> QED BY <2>2, NoFlowType DEF Orchestrator, OrchRec
<1> HIDE DEF b
<1>2. <<>> \in S
  <2>1. IsOrch(o, from, to, <<>>)
    BY OrchStart DEF b
  <2>2. OrchRun(o, <<>>) = o
    BY <1>1, OnFlowFold
  <2> HIDE DEF o
  <2> QED BY <2>1, <2>2
<1>3. ASSUME NEW w \in Seq(TradeRec), NEW e \in TradeRec, w \in S PROVE Append(w, e) \in S
  <2> DEFINE a == Append(w, e)
             n == Len(w)
  <2>1. /\ a \in Seq(TradeRec) /\ n \in Nat /\ DOMAIN a = 1..(n + 1) /\ DOMAIN w = 1..n
        /\ a[n + 1] = e /\ \A i \in 1..n : a[i] = w[i]
    BY AppendProperties
  <2>2. OrchRun(o, a) = OnFlow(OrchRun(o, w), e)
    BY <1>1, OnFlowFold
  <2> HIDE DEF o, a
  <2> SUFFICES ASSUME Ordered(a), Within(a, from, to) PROVE IsOrch(OrchRun(o, a), from, to, a)
    BY <2>1 DEF a
  <2>3. Ordered(w) /\ Within(w, from, to)
    <3>1. \A i \in 1..n : i \in 1..(n + 1)
      BY <2>1
    <3> QED BY <3>1, <2>1 DEF Ordered, Within
  <2>4. IsOrch(OrchRun(o, w), from, to, w)
    BY <2>3, <1>3
  <2>5. from <= e.ts /\ e.ts < to /\ (w # <<>> => w[n].ts <= e.ts)
    <3>1. n + 1 \in 1..(n + 1)
      BY <2>1
    <3>2. w # <<>> => n \in 1..n /\ n \in 1..(n + 1) /\ n <= n + 1
      BY <2>1
    <3> QED BY <3>1, <3>2, <2>1 DEF Ordered, Within
  <2> QED BY <2>2, <2>3, <2>4, <2>5, OrchStep DEF a
<1>4. \A w \in Seq(TradeRec) : w \in S
  <2> HIDE DEF S
  <2> QED BY <1>2, <1>3, SeqInduction
<1> QED BY <1>4 DEF b

-----------------------------------------------------------------------------
(* The trades taken. *)

\* Keep takes a trade to the page, Accepts to any other user's bars.
Goes(t) == IF PageSpec THEN Classify(t)[1] = date /\ InSet(spec.sessions, Classify(t)[2])
           ELSE Accepts(spec, t)

\* The type invariant; the tape is in the order of its stamps.
PageType ==
    /\ date \in Days /\ spec \in Specs
    /\ trades \in Seq(TradeRec) /\ Ordered(trades)

\* What is taken: the trades that go to the page, or to the spec of another user.
LEMMA TakenIs == Taken = Pick(trades, {i \in DOMAIN trades : Goes(trades[i].ts)})
<1>1. CASE PageSpec
  <2>1. Taken = Keep(trades, date, spec.sessions)
    BY <1>1 DEF Taken
  <2> QED BY <1>1, <2>1 DEF Keep, Goes
<1>2. CASE ~PageSpec
  BY <1>2 DEF Taken, Goes
<1> QED BY <1>1, <1>2

\* The trades of a tape have the type of trades.
LEMMA TradesType ==
  ASSUME PageAssumption, date \in Days, NEW e \in Trades
  PROVE  e \in TradeRec
<1>1. PICK c \in Clocks, p \in Prints :
         e = [ts |-> date * Day + c, px |-> p.px, qty |-> p.qty, side |-> p.side]
  BY DEF Trades
<1>2. date * Day + c \in Int
  BY DEF PageAssumption, Day
<1>3. p.px \in Int /\ p.qty \in Nat /\ p.side \in {"bid", "ask", "none"}
  BY DEF PageAssumption, PrintRec
<1> QED BY <1>1, <1>2, <1>3 DEF TradeRec

\* What was taken keeps the order of the tape.
LEMMA TakenType ==
  ASSUME PageType
  PROVE  /\ Taken \in Seq(TradeRec) /\ Ordered(Taken)
         /\ \A i \in DOMAIN Taken : Goes(Taken[i].ts)
                                    /\ \E j \in DOMAIN trades : Taken[i] = trades[j]
<1> DEFINE P == {i \in DOMAIN trades : Goes(trades[i].ts)}
<1>1. trades \in Seq(TradeRec) /\ Ordered(trades)
  BY DEF PageType
<1>2. P \subseteq DOMAIN trades /\ Taken = Pick(trades, P)
  BY TakenIs
<1>3. /\ Taken \in Seq(TradeRec)
      /\ \E f \in [DOMAIN Taken -> P] :
               /\ \A n, o \in DOMAIN f : n < o => f[n] < f[o]
               /\ \A k \in P : \E n \in DOMAIN f : f[n] = k
               /\ \A n \in DOMAIN f : Taken[n] = trades[f[n]]
  <2> HIDE DEF P
  <2> QED BY <1>1, <1>2, PickFacts
<1>4. PICK f \in [DOMAIN Taken -> P] :
               /\ \A n, o \in DOMAIN f : n < o => f[n] < f[o]
               /\ \A n \in DOMAIN f : Taken[n] = trades[f[n]]
  BY <1>3
<1>5. \A n \in DOMAIN Taken : f[n] \in P /\ f[n] \in DOMAIN trades /\ Goes(trades[f[n]].ts)
  BY <1>4
<1>6. Ordered(Taken)
  <2> SUFFICES ASSUME NEW i \in DOMAIN Taken, NEW j \in DOMAIN Taken, i <= j
               PROVE  Taken[i].ts <= Taken[j].ts
    BY DEF Ordered
  <2>1. f[i] <= f[j]
    <3>1. i \in Int /\ j \in Int /\ f[i] \in Int /\ f[j] \in Int
      <4>1. DOMAIN Taken = 1..Len(Taken) /\ DOMAIN trades = 1..Len(trades)
        BY <1>1, <1>3
      <4> QED BY <4>1, <1>5
    <3>2. CASE i = j
      BY <3>1, <3>2
    <3>3. CASE i < j
      BY <3>1, <3>3, <1>4
    <3> QED BY <3>1, <3>2, <3>3
  <2> QED BY <2>1, <1>1, <1>4, <1>5 DEF Ordered
<1> QED BY <1>3, <1>4, <1>5, <1>6

LEMMA PageTypeInit == ASSUME PageInit PROVE PageType
<1>1. trades = <<>> /\ date \in Days /\ spec \in Specs
  BY DEF PageInit
<1>2. <<>> \in Seq(TradeRec) /\ DOMAIN <<>> = {}
  OBVIOUS
<1> QED BY <1>1, <1>2 DEF PageType, Ordered

\* One more trade on the tape.
Grows(e) ==
    /\ e \in TradeRec /\ e \in Trades
    /\ trades # <<>> => trades[Len(trades)].ts <= e.ts
    /\ trades' = Append(trades, e) /\ UNCHANGED <<date, spec>>

\* Every step appends one trade.
LEMMA StepGrows ==
  ASSUME PageAssumption, PageType, PageNext
  PROVE  \E e \in TradeRec : Grows(e) /\ (Feed(e) \/ Deliver(e) \/ Skip(e))
<1>1. PICK e \in Trades :
        /\ trades # <<>> => Last(trades).ts <= e.ts
        /\ trades' = Append(trades, e) /\ UNCHANGED <<date, spec>>
        /\ Feed(e) \/ Deliver(e) \/ Skip(e)
  BY DEF PageNext
<1>2. e \in TradeRec
  BY TradesType DEF PageType
<1>3. Last(trades) = trades[Len(trades)]
  BY DEF Last
<1> QED BY <1>1, <1>2, <1>3 DEF Grows

LEMMA PageTypeStep ==
  ASSUME PageType, NEW e, Grows(e)
  PROVE  PageType'
<1> DEFINE n == Len(trades)
           a == Append(trades, e)
<1>1. /\ n \in Nat /\ a \in Seq(TradeRec) /\ DOMAIN a = 1..(n + 1) /\ DOMAIN trades = 1..n
      /\ a[n + 1] = e /\ \A i \in 1..n : a[i] = trades[i]
  BY AppendProperties DEF PageType, Grows
<1>2. /\ \A i, j \in 1..n : i <= j => trades[i].ts <= trades[j].ts
      /\ \A i \in 1..n : trades[i].ts \in Int
      /\ e.ts \in Int
  <2>1. \A x \in TradeRec : x.ts \in Int
    BY DEF TradeRec
  <2>2. trades \in Seq(TradeRec) /\ Ordered(trades) /\ e \in TradeRec
    BY DEF PageType, Grows
  <2>3. \A i \in 1..n : trades[i] \in TradeRec
    BY <2>2
  <2> QED BY <2>1, <2>2, <2>3, <1>1 DEF Ordered
<1>3. n \in 1..n => trades[n].ts <= e.ts
  BY <1>1 DEF Grows
<1> HIDE DEF n, a
<1>4. Ordered(a)
  <2> SUFFICES ASSUME NEW i \in 1..(n + 1), NEW j \in 1..(n + 1), i <= j
               PROVE  a[i].ts <= a[j].ts
    BY <1>1 DEF Ordered
  <2>1. CASE j # n + 1
    <3>1. i \in 1..n /\ j \in 1..n
      BY <2>1, <1>1
    <3> QED BY <3>1, <1>1, <1>2
  <2>2. CASE j = n + 1 /\ i # n + 1
    <3>1. i \in 1..n /\ n \in 1..n /\ i <= n
      BY <2>2, <1>1
    <3>2. trades[i].ts <= trades[n].ts /\ trades[n].ts <= e.ts
          /\ trades[i].ts \in Int /\ trades[n].ts \in Int
      BY <3>1, <1>2, <1>3
    <3> QED BY <3>1, <3>2, <2>2, <1>1, <1>2
  <2>3. CASE j = n + 1 /\ i = n + 1
    BY <2>3, <1>1, <1>2
  <2> QED BY <2>1, <2>2, <2>3
<1>5. date' = date /\ spec' = spec /\ trades' = a
  BY DEF Grows, a
<1> QED BY <1>1, <1>4, <1>5 DEF PageType

\* One trade more: it is taken when it goes.
LEMMA TakenStep ==
  ASSUME PageType, NEW e, Grows(e)
  PROVE  /\ Taken' = IF Goes(e.ts) THEN Append(Taken, e) ELSE Taken
         /\ PageSpec' = PageSpec /\ Shown' = Shown
         /\ Taken # <<>> => Taken[Len(Taken)].ts <= e.ts
<1> DEFINE n == Len(trades)
           a == Append(trades, e)
           P == {i \in DOMAIN trades : Goes(trades[i].ts)}
           Q == {i \in DOMAIN a : Goes(a[i].ts)}
<1>1. /\ n \in Nat /\ a \in Seq(TradeRec) /\ DOMAIN a = 1..(n + 1) /\ DOMAIN trades = 1..n
      /\ a[n + 1] = e /\ \A i \in 1..n : a[i] = trades[i]
  BY AppendProperties DEF PageType, Grows
<1>2. date' = date /\ spec' = spec /\ trades' = a /\ trades \in Seq(TradeRec) /\ e \in TradeRec
  BY DEF Grows, PageType
<1>3. PageSpec' = PageSpec /\ Shown' = Shown
  BY <1>2 DEF PageSpec, Shown
<1>4. Taken' = Pick(a, Q)
  <2>1. CASE PageSpec
    <3>1. Taken' = Keep(a, date, spec.sessions)
      BY <1>2, <1>3, <2>1 DEF Taken
    <3> QED BY <3>1, <2>1 DEF Keep, Goes
  <2>2. CASE ~PageSpec
    BY <1>2, <1>3, <2>2 DEF Taken, Goes
  <2> QED BY <2>1, <2>2
<1>5. P \subseteq DOMAIN trades /\ Taken = Pick(trades, P)
  BY TakenIs
<1> HIDE DEF n, a
<1>6. ASSUME Goes(e.ts) PROVE Taken' = Append(Taken, e)
  <2>1. Q = P \cup {n + 1}
    BY <1>1, <1>6
  <2> HIDE DEF P, Q
  <2>2. Pick(a, Q) = Append(Pick(trades, P), e)
    BY <2>1, <1>2, <1>5, PickTakes DEF a, n
  <2> QED BY <2>2, <1>4, <1>5, <1>6
<1>7. ASSUME ~Goes(e.ts) PROVE Taken' = Taken
  <2>1. Q = P
    BY <1>1, <1>7
  <2> HIDE DEF P, Q
  <2>2. Pick(a, P) = Pick(trades, P)
    BY <1>1, <1>2, <1>5, PickSkips
  <2> QED BY <2>1, <2>2, <1>4, <1>5, <1>7
<1>8. ASSUME Taken # <<>> PROVE Taken[Len(Taken)].ts <= e.ts
  <2>1. Taken \in Seq(TradeRec) /\ Len(Taken) \in DOMAIN Taken
    BY <1>8, TakenType
  <2>2. PICK j \in DOMAIN trades : Taken[Len(Taken)] = trades[j]
    BY <2>1, TakenType
  <2>3. j \in 1..n /\ n \in 1..n /\ trades # <<>> /\ j <= n
    BY <1>1, <1>2 DEF n
  <2>4. trades[j].ts <= trades[n].ts /\ trades[n].ts <= e.ts
    BY <2>3, <1>1 DEF PageType, Ordered, Grows, n
  <2>5. trades[j].ts \in Int /\ trades[n].ts \in Int /\ e.ts \in Int
    <3>1. \A x \in TradeRec : x.ts \in Int
      BY DEF TradeRec
    <3>2. trades[j] \in TradeRec /\ trades[n] \in TradeRec
      BY <2>3, <1>2 DEF n
    <3> QED BY <3>1, <3>2, <1>2
  <2> QED BY <2>2, <2>4, <2>5
<1> QED BY <1>3, <1>6, <1>7, <1>8

\* The range the boundaries of the page are for.
PageRange == SessionRange(date, Shown)

\* A trade of the page lies in its session, and in that range.
LEMMA GoesWithin ==
  ASSUME PageAssumption, PageType, PageSpec, NEW t \in Int, Goes(t)
  PROVE  /\ OpenHours(date, HoursFor(date)) /\ date \in Int
         /\ PageRange[1] \in Int /\ PageRange[2] \in Int
         /\ PageRange[1] <= t /\ t < PageRange[2]
         /\ Classify(t) = <<date, Shown>>
         /\ Shown = "RTH" => PageRange[1] = HoursFor(date).rthOpen /\ spec.anchor = "rthOpen"
         /\ Shown = "ETH" => PageRange[1] = HoursFor(date).ethOpen /\ spec.anchor = "sessionOpen"
         /\ Shown \in {"RTH", "ETH"} /\ spec.kind = "time"
<1> DEFINE h == HoursFor(date)
           c == Classify(t)
<1>1. /\ spec.kind = "time"
      /\ \/ spec.anchor = "rthOpen" /\ spec.sessions = {"RTH"}
         \/ spec.anchor = "sessionOpen" /\ spec.sessions = {"ETH"}
  BY DEF PageSpec
<1>2. c[1] = date /\ c[2] # "Closed" /\ c[2] \in spec.sessions
  BY <1>1 DEF Goes, InSet
<1>3. /\ OpenHours(date, h) /\ date \in Int
      /\ c[2] = "RTH" => h.rthOpen <= t /\ t < h.rthClose
      /\ c[2] = "ETH" => h.ethOpen <= t /\ t < h.ethClose
  BY <1>2, ClassifyWithin
<1>4. c = <<c[1], c[2]>>
  <2>1. \A d, s, x, z : FirstOpen(<<d, s>>, <<x, z>>) \in {<<d, s>>, <<x, z>>, <<NoDate, "Closed">>}
    BY DEF FirstOpen
  <2>2. \A u, v : <<u, v>> = <<<<u, v>>[1], <<u, v>>[2]>>
    OBVIOUS
  <2>3. PICK u, v : c = <<u, v>>
    BY <2>1 DEF Classify
  <2> QED BY <2>2, <2>3
<1> HIDE DEF c, h
<1>5. Shown \in {"RTH", "ETH"} /\ c[2] = Shown
  BY <1>1, <1>2 DEF Shown
<1>6. PageRange = IF Shown = "ETH" THEN <<h.ethOpen, h.ethClose + 1>>
                  ELSE <<h.rthOpen, h.rthClose + 1>>
  BY DEF PageRange, SessionRange, h
<1>7. h.ethOpen \in Int /\ h.ethClose \in Int /\ h.rthOpen \in Int /\ h.rthClose \in Int
  BY <1>3 DEF OpenHours
<1>8. CASE Shown = "ETH"
  <2>1. PageRange[1] = h.ethOpen /\ PageRange[2] = h.ethClose + 1
    BY <1>6, <1>8
  <2>2. spec.anchor = "sessionOpen"
    BY <1>1, <1>8 DEF Shown
  <2> QED BY <2>1, <2>2, <1>1, <1>2, <1>3, <1>4, <1>5, <1>7, <1>8 DEF c, h
<1>9. CASE Shown = "RTH"
  <2>1. PageRange[1] = h.rthOpen /\ PageRange[2] = h.rthClose + 1
    BY <1>6, <1>9
  <2>2. spec.anchor = "rthOpen"
    BY <1>1, <1>9 DEF Shown
  <2> QED BY <2>1, <2>2, <1>1, <1>2, <1>3, <1>4, <1>5, <1>7, <1>9 DEF c, h
<1> QED BY <1>5, <1>8, <1>9

\* The handler sees a trade exactly when Keep takes it.
LEMMA KeepOne ==
  ASSUME PageSpec, NEW e \in TradeRec
  PROVE  Keep(<<e>>, date, spec.sessions) # <<>> <=> Goes(e.ts)
<1> DEFINE s == <<e>>
           P == {i \in DOMAIN s : LET c == Classify(s[i].ts)
                                  IN c[1] = date /\ InSet(spec.sessions, c[2])}
<1>1. Keep(s, date, spec.sessions) = Pick(s, P)
  BY DEF Keep
<1>2. s \in Seq(TradeRec) /\ DOMAIN s = {1} /\ s[1] = e /\ P \subseteq DOMAIN s
  OBVIOUS
<1>3. P = IF Goes(e.ts) THEN {1} ELSE {}
  BY <1>2 DEF Goes
<1> HIDE DEF P, s
<1>4. Pick(s, P) \in Seq(TradeRec) /\ Len(Pick(s, P)) = Cardinality(P)
  BY <1>2, PickFacts
<1>5. Cardinality({1}) = 1 /\ Cardinality({}) = 0
  BY FS_Singleton, FS_EmptySet
<1>6. Pick(s, P) = <<>> <=> Len(Pick(s, P)) = 0
  BY <1>4
<1>7. (Goes(e.ts) => Len(Pick(s, P)) = 1) /\ (~Goes(e.ts) => Len(Pick(s, P)) = 0)
  BY <1>3, <1>4, <1>5
<1> QED BY <1>1, <1>6, <1>7 DEF s

LEMMA TakenWithin ==
  ASSUME PageAssumption, PageType, PageSpec
  PROVE  Within(Taken, PageRange[1], PageRange[2])
<1> SUFFICES ASSUME NEW i \in DOMAIN Taken
             PROVE  PageRange[1] <= Taken[i].ts /\ Taken[i].ts < PageRange[2]
  BY DEF Within
<1>1. Goes(Taken[i].ts) /\ Taken[i].ts \in Int
  <2>1. \A x \in TradeRec : x.ts \in Int
    BY DEF TradeRec
  <2>2. Taken[i] \in TradeRec
    BY TakenType
  <2> QED BY <2>1, <2>2, TakenType
<1> QED BY <1>1, GoesWithin

\* The orchestrator of the page has run over the trades taken.
OrchInv ==
    PageSpec =>
        IF Taken = <<>> THEN orch = Orchestrator(Boundaries(PageRange[1], PageRange[2]))
        ELSE IsOrch(orch, PageRange[1], PageRange[2], Taken)

LEMMA NothingTaken == trades = <<>> => Taken = <<>>
<1> SUFFICES ASSUME trades = <<>> PROVE Taken = <<>>
  OBVIOUS
<1>1. trades \in Seq(TradeRec) /\ {i \in DOMAIN trades : Goes(trades[i].ts)} = {}
  OBVIOUS
<1>2. Pick(trades, {}) = <<>>
  BY <1>1, PickNone
<1>3. Taken = Pick(trades, {})
  BY <1>1, TakenIs
<1> QED BY <1>2, <1>3

LEMMA OrchInvInit == ASSUME PageInit PROVE OrchInv
  BY NothingTaken DEF PageInit, OrchInv, PageRange

LEMMA OrchInvStep ==
  ASSUME PageAssumption, PageType, OrchInv, NEW e, Grows(e), Feed(e) \/ Deliver(e) \/ Skip(e)
  PROVE  OrchInv'
<1>1. e \in TradeRec /\ e.ts \in Int
  BY DEF Grows, TradeRec
<1>2. /\ Taken' = IF Goes(e.ts) THEN Append(Taken, e) ELSE Taken
      /\ PageSpec' = PageSpec /\ PageRange' = PageRange
      /\ Taken # <<>> => Taken[Len(Taken)].ts <= e.ts
  <2>1. date' = date /\ spec' = spec
    BY DEF Grows
  <2> QED BY <2>1, TakenStep DEF PageRange, SessionRange, HoursFor
<1>3. CASE Feed(e)
  BY <1>2, <1>3 DEF Feed, OrchInv
<1>4. CASE Skip(e)
  <2>1. PageSpec /\ ~Goes(e.ts) /\ orch' = orch
    BY <1>1, <1>4, KeepOne DEF Skip
  <2> QED BY <2>1, <1>2 DEF OrchInv
<1>5. CASE Deliver(e)
  <2> DEFINE from == PageRange[1]
             to == PageRange[2]
  <2>1. PageSpec /\ Goes(e.ts) /\ orch' = OnFlow(orch, e)
    BY <1>1, <1>5, KeepOne DEF Deliver
  <2>2. from \in Int /\ to \in Int /\ from <= e.ts /\ e.ts < to
    BY <2>1, <1>1, GoesWithin
  <2>3. Taken \in Seq(TradeRec) /\ Ordered(Taken) /\ Within(Taken, from, to)
    BY <2>1, TakenType, TakenWithin
  <2>4. IsOrch(orch, from, to, Taken)
    <3>1. CASE Taken = <<>>
      <4> HIDE DEF from, to
      <4>1. IsOrch(Orchestrator(Boundaries(from, to)), from, to, <<>>)
        BY <2>2, OrchStart
      <4>2. orch = Orchestrator(Boundaries(from, to))
        BY <2>1, <3>1 DEF OrchInv, from, to
      <4> QED BY <4>1, <4>2, <3>1
    <3>2. CASE Taken # <<>>
      BY <2>1, <3>2 DEF OrchInv
    <3> QED BY <3>1, <3>2
  <2> HIDE DEF from, to
  <2>5. IsOrch(orch', from, to, Append(Taken, e))
    BY <1>1, <1>2, <2>1, <2>2, <2>3, <2>4, OrchStep
  <2>6. Taken' = Append(Taken, e) /\ Append(Taken, e) # <<>>
    <3>1. Append(Taken, e) # <<>>
      BY <2>3, <1>1, AppendProperties
    <3> QED BY <3>1, <2>1, <1>2
  <2> QED BY <2>5, <2>6, <1>2 DEF OrchInv, from, to
<1> QED BY <1>3, <1>4, <1>5

LEMMA OrchInvImplies == ASSUME OrchInv PROVE FlowSinceEdge
<1> SUFFICES ASSUME PageSpec, Taken # <<>>
             PROVE  LET now == Last(Taken).ts
                        since == Pick(Taken, {i \in DOMAIN Taken :
                                                \A t \in (Taken[i].ts + 1)..now :
                                                   Classify(t) = Classify(t - 1)})
                    IN orch.flow = FoldLeft(FlowTrade, NoFlow, since)
  BY DEF FlowSinceEdge
<1>1. orch.flow = FlowOf(Taken)
  BY DEF OrchInv, IsOrch
<1>2. {i \in DOMAIN Taken : \A t \in (Taken[i].ts + 1)..Last(Taken).ts :
                               Classify(t) = Classify(t - 1)} = Since(Taken)
  BY DEF Last, Since, NoEdge
<1>3. FlowOf(Taken) = FoldLeft(FlowTrade, NoFlow, Pick(Taken, Since(Taken)))
  BY DEF FlowOf, FlowRun
<1> QED BY <1>1, <1>2, <1>3

-----------------------------------------------------------------------------
(* The bars of the page. *)

\* Specs are what New accepts.
LEMMA SpecGood ==
  ASSUME PageAssumption, PageType
  PROVE  GoodSpec(spec)
  BY DEF PageAssumption, PageType, GoodSpec

LEMMA GoesAccepts ==
  ASSUME NEW t, Goes(t)
  PROVE  Accepts(spec, t)
  BY DEF Goes, Accepts

\* The bars and where the trades went, and the property follows.
BarsInv == BarsOk(spec, agg, Taken, home)

LEMMA BarsInvInit == ASSUME PageInit PROVE BarsInv
  BY NothingTaken, BarsOkStart DEF PageInit, BarsInv

LEMMA BarsInvStep ==
  ASSUME PageAssumption, PageType, BarsInv, NEW e, Grows(e), Feed(e) \/ Deliver(e) \/ Skip(e)
  PROVE  BarsInv'
<1> DEFINE x == AddBar(spec, agg, e)
           g == Append(home, Len(Snapshot(x)))
<1>1. e \in TradeRec /\ spec' = spec /\ GoodSpec(spec)
  BY SpecGood DEF Grows
<1>2. Taken' = IF Goes(e.ts) THEN Append(Taken, e) ELSE Taken
  BY TakenStep
<1>3. BarsOk(spec, agg, Taken, home)
  BY DEF BarsInv
<1>4. Goes(e.ts) => BarsOk(spec, x, Append(Taken, e), g)
  <2> HIDE DEF g, x
  <2> QED BY <1>1, <1>3, GoesAccepts, BarsOkStep DEF x, g
<1>5. \/ agg' = x /\ Goes(e.ts) /\ home' = g
      \/ agg' = agg /\ ~Goes(e.ts) /\ home' = home
  <2>1. CASE Feed(e)
    <3>1. Goes(e.ts) <=> Accepts(spec, e.ts)
      BY <2>1 DEF Feed, Goes
    <3>2. agg' = x /\ home' = IF Accepts(spec, e.ts) THEN g ELSE home
      BY <2>1 DEF Feed, Snapshot
    <3>3. ~Accepts(spec, e.ts) => x = agg
      BY DEF AddBar
    <3> HIDE DEF x, g
    <3> QED BY <3>1, <3>2, <3>3
  <2>2. CASE Deliver(e)
    <3>1. Goes(e.ts)
      BY <2>2, <1>1, KeepOne DEF Deliver
    <3>2. agg' = x /\ home' = g
      BY <2>2 DEF Deliver, Snapshot
    <3> QED BY <3>1, <3>2
  <2>3. CASE Skip(e)
    <3>1. ~Goes(e.ts)
      BY <2>3, <1>1, KeepOne DEF Skip
    <3>2. agg' = agg /\ home' = home
      BY <2>3 DEF Skip
    <3> QED BY <3>1, <3>2
  <2> QED BY <2>1, <2>2, <2>3
<1> HIDE DEF x, g
<1> QED BY <1>1, <1>2, <1>3, <1>4, <1>5 DEF BarsInv

LEMMA BarsInvImplies ==
  ASSUME PageAssumption, PageType, BarsInv
  PROVE  BarsPartition
  BY SpecGood, TakenType, GoesAccepts, BarsOkImplies DEF BarsInv

\* Aggregators of a spec; trades keep them so.
GoodAggs(s) == {a \in AggRec : GoodBars(s, a)}

LEMMA AddBarType ==
  ASSUME NEW s, GoodSpec(s), NEW a \in GoodAggs(s), NEW e \in TradeRec
  PROVE  AddBar(s, a, e) \in GoodAggs(s)
<1>1. GoodBars(s, a)
  BY DEF GoodAggs
<1>2. CASE ~Accepts(s, e.ts)
  BY <1>2 DEF AddBar
<1>3. CASE Accepts(s, e.ts)
  <2>1. GoodBars(s, AddBar(s, a, e))
    BY <1>1, <1>3, AddBarStep
  <2> QED BY <2>1 DEF GoodAggs, GoodBars
<1> QED BY <1>2, <1>3

\* The aggregator, trade by trade.
AggRun(s, base, w) == FoldLeft(LAMBDA a, e : AddBar(s, a, e), base, w)

\* The fold of a tape into bars.
LEMMA AggFold ==
  ASSUME NEW s, GoodSpec(s), NEW base \in GoodAggs(s)
  PROVE  /\ AggRun(s, base, <<>>) = base
         /\ \A w \in Seq(TradeRec) : AggRun(s, base, w) \in GoodAggs(s)
         /\ \A w \in Seq(TradeRec), e \in TradeRec :
               AggRun(s, base, Append(w, e)) = AddBar(s, AggRun(s, base, w), e)
<1> DEFINE F == [a \in GoodAggs(s) |-> [x \in TradeRec |-> AddBar(s, a, x)]]
<1>1. IsStep(F, TradeRec, GoodAggs(s)) /\ \A a \in GoodAggs(s), x \in TradeRec : F[a][x] = AddBar(s, a, x)
  <2>1. \A a \in GoodAggs(s), x \in TradeRec : AddBar(s, a, x) \in GoodAggs(s)
    BY AddBarType
  <2> QED BY <2>1 DEF IsStep
<1> DEFINE V == GoodAggs(s)
           A == TradeRec
<1> HIDE DEF F, V, A
<1>2. ASSUME NEW w \in Seq(TradeRec)
      PROVE  AggRun(s, base, w) = RunOf(F, base, w)
  <2> DEFINE Fix(it) == it = [part \in SUBSET DOMAIN w |->
                                IF part = {} THEN base
                                ELSE LET x == Max(part) IN AddBar(s, it[part \ {x}], w[x])]
             it == CHOOSE it : Fix(it)
  <2>1. \A part \in SUBSET DOMAIN w : part # {} => w[Max(part)] \in TradeRec
    <3>1. DOMAIN w = 1..Len(w) /\ Len(w) \in Nat /\ \A k \in 1..Len(w) : w[k] \in TradeRec
      OBVIOUS
    <3> QED BY <3>1, MaxFacts
  <2>2. \E f : Fix(f)
    <3>1. PICK f : Solves(f, F, GoodAggs(s), base, w)
      BY <1>1, FoldSolution DEF V
    <3>2. ASSUME NEW part \in SUBSET DOMAIN w, part # {}
          PROVE  f[part] = AddBar(s, f[part \ {Max(part)}], w[Max(part)])
      <4>1. f[part \ {Max(part)}] \in GoodAggs(s) /\ f[part] = F[f[part \ {Max(part)}]][w[Max(part)]]
        BY <3>1, <3>2 DEF Solves
      <4> QED BY <4>1, <3>2, <2>1, <1>1
    <3>3. f = [part \in SUBSET DOMAIN w |-> f[part]] /\ f[{}] = base
      BY <3>1 DEF Solves
    <3> QED BY <3>2, <3>3
  <2>3. Fix(it)
    <3> HIDE DEF Fix
    <3> QED BY <2>2, Zenon
  <2>4. AggRun(s, base, w) = it[DOMAIN w]
    BY DEF AggRun, FoldLeft, MapThenFoldSet
  <2> HIDE DEF it
  <2>5. it[{}] = base
    BY <2>3
  <2>6. ASSUME NEW part \in SUBSET DOMAIN w, part # {}, it[part \ {Max(part)}] \in GoodAggs(s)
        PROVE  it[part] = F[it[part \ {Max(part)}]][w[Max(part)]]
    BY <2>3, <2>6, <2>1, <1>1
  <2>7. it[DOMAIN w] = RunOf(F, base, w)
    <3> HIDE DEF Fix
    <3>1. IsStep(F, A, V) /\ base \in V /\ w \in Seq(A)
      BY <1>1 DEF V, A
    <3>2. StepsAlong(it, F, V, base, w)
      BY <2>5, <2>6 DEF V, StepsAlong
    <3> QED BY <3>1, <3>2, FoldIsRun
  <2> QED BY <2>4, <2>7
<1>3. /\ RunOf(F, base, <<>>) = base
      /\ \A w \in Seq(TradeRec) : RunOf(F, base, w) \in GoodAggs(s)
      /\ \A w \in Seq(TradeRec), e \in TradeRec :
            RunOf(F, base, Append(w, e)) = F[RunOf(F, base, w)][e]
  BY <1>1, RunFacts
<1>4. <<>> \in Seq(TradeRec) /\ \A w \in Seq(TradeRec), e \in TradeRec : Append(w, e) \in Seq(TradeRec)
  OBVIOUS
<1>5. ASSUME NEW w \in Seq(TradeRec), NEW e \in TradeRec
      PROVE  AggRun(s, base, Append(w, e)) = AddBar(s, AggRun(s, base, w), e)
  <2>1. Append(w, e) \in Seq(TradeRec) /\ RunOf(F, base, w) \in GoodAggs(s)
    BY <1>3, <1>4
  <2>2. /\ AggRun(s, base, Append(w, e)) = RunOf(F, base, Append(w, e))
        /\ AggRun(s, base, w) = RunOf(F, base, w)
    BY <2>1, <1>2
  <2>3. F[RunOf(F, base, w)][e] = AddBar(s, RunOf(F, base, w), e)
    BY <2>1, <1>1
  <2>4. RunOf(F, base, Append(w, e)) = F[RunOf(F, base, w)][e]
    BY <1>3
  <2> QED BY <2>2, <2>3, <2>4
<1>6. AggRun(s, base, <<>>) = base
  BY <1>2, <1>3, <1>4
<1>7. \A w \in Seq(TradeRec) : AggRun(s, base, w) \in GoodAggs(s)
  BY <1>2, <1>3
<1> QED BY <1>5, <1>6, <1>7

-----------------------------------------------------------------------------
(* The bars of a page stand one after the other. *)

\* Multiples of the interval are an interval apart.
LEMMA Multiples ==
  ASSUME NEW a \in Int, NEW n \in Nat, NEW q \in Int, NEW r \in Int, q < r
  PROVE  a + q * n + n <= a + r * n
<1>1. q * n \in Int /\ r * n \in Int
  OBVIOUS
<1>2. r - (q + 1) \in Nat
  OBVIOUS
<1>3. (r - (q + 1)) * n \in Nat
  BY <1>2
<1>4. (r - (q + 1)) * n = r * n - q * n - n
  OBVIOUS
<1> QED BY <1>1, <1>3, <1>4

\* The buckets of a page count from the open of its session.
LEMMA PageBuckets ==
  ASSUME PageAssumption, PageType, PageSpec, NEW t \in Int, Goes(t)
  PROVE  /\ PageRange[1] \in Int /\ spec.interval \in Nat \ {0}
         /\ BucketStart(spec, t) \in Int
         /\ BucketStart(spec, t) <= t /\ t < BucketStart(spec, t) + spec.interval
         /\ \E q \in Int : BucketStart(spec, t) = PageRange[1] + q * spec.interval
<1> DEFINE a == PageRange[1]
           n == spec.interval
           h == HoursFor(date)
           b == BucketStart(spec, t)
<1>1. /\ OpenHours(date, h) /\ date \in Int /\ a \in Int /\ a <= t /\ t < PageRange[2]
      /\ PageRange[2] \in Int
      /\ Classify(t) = <<date, Shown>>
      /\ Shown = "RTH" => a = h.rthOpen /\ spec.anchor = "rthOpen"
      /\ Shown = "ETH" => a = h.ethOpen /\ spec.anchor = "sessionOpen"
      /\ Shown \in {"RTH", "ETH"} /\ spec.kind = "time"
  BY GoesWithin
<1>2. n \in Nat \ {0}
  <2>1. spec \in SpecRec /\ ValidSpec(spec)
    BY SpecGood DEF GoodSpec
  <2>2. spec.interval \in Nat /\ spec.kind = "time"
    BY <2>1, <1>1 DEF SpecRec
  <2>3. spec.interval > 0
    BY <2>1, <2>2 DEF ValidSpec
  <2> QED BY <2>2, <2>3
<1>3. \A d, x : <<d, x>>[1] = d /\ <<d, x>>[2] = x
  OBVIOUS
<1>4. AnchorOf(spec, t, Classify(t)) = a
  BY <1>1, <1>3 DEF AnchorOf, OpenOf
<1>5. b = From(a, spec, t)
  BY <1>1, <1>4 DEF BucketStart
<1>6. t < a + Day
  <2>1. PageRange = IF Shown = "ETH" THEN <<h.ethOpen, h.ethClose + 1>>
                    ELSE <<h.rthOpen, h.rthClose + 1>>
    BY DEF PageRange, SessionRange
  <2>2. PageRange[2] = IF Shown = "ETH" THEN h.ethClose + 1 ELSE h.rthClose + 1
    BY <2>1, <1>3
  <2>3. /\ h.ethOpen = date * 96 - 28 /\ h.rthOpen = date * 96 + 34
        /\ h.ethClose \in {date * 96 + 64, date * 96 + 49}
        /\ h.rthClose \in {date * 96 + 60, date * 96 + 49, date * 96 + 64}
    BY <1>1 DEF OpenHours
  <2> DEFINE d == date * 96
  <2>4. d \in Int
    BY <1>1
  <2> HIDE DEF d, a, h
  <2> QED BY <1>1, <2>2, <2>3, <2>4 DEF d, Day
<1> HIDE DEF a, n, h, b
<1>7. CASE n >= Day
  <2>1. b = a
    BY <1>1, <1>5, <1>7 DEF From, n
  <2>2. a = a + 0 * n /\ 0 \in Int
    BY <1>1, <1>2
  <2>3. t < b + n
    BY <2>1, <1>1, <1>2, <1>6, <1>7 DEF Day
  <2> QED BY <2>1, <2>2, <2>3, <1>1, <1>2 DEF a, b, n
<1>8. CASE ~(n >= Day)
  <2>1. b = AddFloored(a, t, n)
    BY <1>5, <1>8 DEF From, n
  <2>2. /\ AddFloored(a, t, n) = a + ((t - a) \div n) * n /\ (t - a) \div n \in Int
        /\ AddFloored(a, t, n) \in Int
        /\ AddFloored(a, t, n) <= t /\ t < AddFloored(a, t, n) + n
    BY <1>1, <1>2, AddFlooredFacts
  <2> QED BY <2>1, <2>2, <1>1, <1>2 DEF a, b, n
<1> QED BY <1>7, <1>8

\* So its bars do not overlap, and each holds its trades.
LEMMA PageFit ==
  ASSUME PageAssumption, PageType, PageSpec, BarsInv
  PROVE  BarsFit(TheBars, Taken, home)
<1> DEFINE S == TheBars
           w == Taken
           n == Len(w)
           I == spec.interval
           a == PageRange[1]
           B(i) == BucketStart(spec, w[i].ts)
<1>1. /\ w \in Seq(TradeRec) /\ Ordered(w) /\ n \in Nat /\ DOMAIN w = 1..n
      /\ \A i \in 1..n : Goes(w[i].ts) /\ w[i].ts \in Int
  <2>1. w \in Seq(TradeRec) /\ Ordered(w) /\ \A i \in DOMAIN w : Goes(w[i].ts)
    BY TakenType
  <2>2. \A e \in TradeRec : e.ts \in Int
    BY DEF TradeRec
  <2> HIDE DEF w
  <2> QED BY <2>1, <2>2
<1>2. spec.kind = "time"
  BY DEF PageSpec
<1>3. GoodBars(spec, agg) /\ Homes(S, w, home) /\ Buckets(spec, S, w, home)
  BY <1>2 DEF BarsInv, BarsOk, TheBars
<1>4. S \in Seq(BarRec)
  BY <1>3, SnapshotIs DEF GoodBars, TheBars
<1>5. /\ \A i \in 1..n : home[i] \in 1..Len(S) /\ S[home[i]].start = B(i)
      /\ \A k \in 1..Len(S) : S[k].end = S[k].start + I /\ \E i \in 1..n : home[i] = k
      /\ \A k \in 1..(Len(S) - 1) : S[k].start # S[k + 1].start
  BY <1>3 DEF Buckets
<1>6. \A i \in 1..n : /\ B(i) \in Int /\ B(i) <= w[i].ts /\ w[i].ts < B(i) + I
                      /\ \E q \in Int : B(i) = a + q * I
                      /\ a \in Int /\ I \in Nat \ {0}
  <2> HIDE DEF w
  <2> QED BY <1>1, PageBuckets
<1>7. \A i, j \in 1..n : (i <= j => w[i].ts <= w[j].ts) /\ (i <= j => home[i] <= home[j])
  <2>1. Len(home) = n /\ \A i, j \in 1..Len(home) : i <= j => home[i] <= home[j]
    BY <1>3 DEF Homes
  <2> QED BY <2>1, <1>1 DEF Ordered
<1> HIDE DEF S, w, n, I, a, B
<1>8. ASSUME NEW k \in 1..(Len(S) - 1) PROVE S[k].end <= S[k + 1].start
  <2>1. k \in 1..Len(S) /\ k + 1 \in 1..Len(S) /\ k \in Nat
    BY <1>4
  <2>2. PICK i \in 1..n : home[i] = k
    BY <2>1, <1>5
  <2>3. PICK j \in 1..n : home[j] = k + 1
    BY <2>1, <1>5
  <2>4. i <= j
    <3> SUFFICES ASSUME ~(i <= j) PROVE FALSE
      OBVIOUS
    <3>1. j <= i
      BY <1>1
    <3> QED BY <3>1, <2>1, <2>2, <2>3, <1>7
  <2>5. w[i].ts <= w[j].ts /\ w[i].ts \in Int /\ w[j].ts \in Int
    BY <2>4, <1>1, <1>7
  <2>6. S[k].start = B(i) /\ S[k + 1].start = B(j) /\ B(i) # B(j) /\ S[k].end = B(i) + I
    BY <2>1, <2>2, <2>3, <1>5
  <2>7. PICK q \in Int : B(i) = a + q * I
    BY <1>6
  <2>8. PICK r \in Int : B(j) = a + r * I
    BY <1>6
  <2>9. a \in Int /\ I \in Nat /\ B(i) \in Int /\ B(j) \in Int
        /\ B(i) <= w[i].ts /\ w[j].ts < B(j) + I
    BY <1>6
  <2>10. q < r
    <3>1. q # r
      BY <2>6, <2>7, <2>8
    <3>2. CASE r < q
      <4>1. B(j) + I <= B(i)
        BY <3>2, <2>7, <2>8, <2>9, Multiples
      <4> QED BY <4>1, <2>5, <2>9
    <3> QED BY <3>1, <3>2
  <2>11. B(i) + I <= B(j)
    BY <2>7, <2>8, <2>9, <2>10, Multiples
  <2> QED BY <2>6, <2>11
<1>9. \A i \in 1..n : S[home[i]].start <= w[i].ts /\ w[i].ts < S[home[i]].end
  <2> TAKE i \in 1..n
  <2>1. home[i] \in 1..Len(S) /\ S[home[i]].start = B(i)
    BY <1>5
  <2>2. S[home[i]].end = S[home[i]].start + I
    BY <2>1, <1>5
  <2>3. B(i) <= w[i].ts /\ w[i].ts < B(i) + I
    BY <1>6
  <2> QED BY <2>1, <2>2, <2>3
<1> QED BY <1>1, <1>3, <1>4, <1>5, <1>8, <1>9 DEF BarsFit, S, w, n

-----------------------------------------------------------------------------
(* The page as a fold over the trades taken. *)

\* What the page shows of a bar: its footprint and the flow at its end.
View(f) == [vwap |-> VwapValue(f), cvd |-> CvdValue(f)]
ColumnOf(w, h, i) == FootprintRun(<<>>, Pick(w, Mine(h, i)))
FlowAt(w, h, i) == View(FlowOf(Pick(w, Below(h, i))))
Columns(S, w, h) == [i \in 1..Len(S) |-> ColumnOf(w, h, i)]
Flows(S, w, h) == [i \in 1..Len(S) |-> FlowAt(w, h, i)]

LEMMA NoColumn == <<>> \in Footprints
<1>1. <<>> = [x \in {} |-> x] /\ {} \in FiniteSets_Int
  BY FS_EmptySet DEF FiniteSets_Int
<1>2. <<>> \in [{} -> [buy : Int, sell : Int]]
  BY <1>1
<1> QED BY <1>1, <1>2 DEF Footprints

\* One more trade at home in bar m: the footprints.
LEMMA ColumnStep ==
  ASSUME NEW S, NEW w, NEW h, Homes(S, w, h), NEW e \in TradeRec, NEW m \in Nat
  PROVE  LET u == Append(w, e)
             g == Append(h, m)
         IN /\ ColumnOf(u, g, m) = FootprintTrade(ColumnOf(w, h, m), e)
            /\ \A i : i # m => ColumnOf(u, g, i) = ColumnOf(w, h, i)
            /\ \A i \in Int : i > Len(S) => ColumnOf(w, h, i) = <<>>
<1> DEFINE u == Append(w, e)
           g == Append(h, m)
           n == Len(w)
<1>1. w \in Seq(TradeRec) /\ h \in Seq(Nat) /\ Len(h) = n /\ \A i \in 1..Len(h) : h[i] <= Len(S)
  BY DEF Homes
<1>2. /\ n \in Nat /\ u \in Seq(TradeRec) /\ g \in Seq(Nat) /\ Len(u) = n + 1
      /\ DOMAIN w = 1..n /\ DOMAIN h = 1..n /\ \A i \in 1..n : u[i] = w[i] /\ h[i] \in Nat
  BY <1>1, BothAppend
<1>3. \A i : Mine(h, i) \subseteq DOMAIN w
  BY <1>2 DEF Mine
<1>4. \A i : Mine(g, i) = IF m = i THEN Mine(h, i) \cup {n + 1} ELSE Mine(h, i)
  <2> HIDE DEF n
  <2> QED BY <1>1, MineAppend
<1>5. \A i : Pick(w, Mine(h, i)) \in Seq(TradeRec)
  BY <1>1, <1>3, PickFacts
<1> HIDE DEF u, g
<1>6. ColumnOf(u, g, m) = FootprintTrade(ColumnOf(w, h, m), e)
  <2>1. Pick(u, Mine(h, m) \cup {n + 1}) = Append(Pick(w, Mine(h, m)), e)
    BY <1>1, <1>3, PickTakes DEF u
  <2>2. Mine(g, m) = Mine(h, m) \cup {n + 1}
    BY <1>4
  <2>3. FootprintRun(<<>>, Append(Pick(w, Mine(h, m)), e))
          = FootprintTrade(FootprintRun(<<>>, Pick(w, Mine(h, m))), e)
    BY <1>5, NoColumn, FootprintFold
  <2> QED BY <2>1, <2>2, <2>3 DEF ColumnOf
<1>7. ASSUME NEW i, i # m PROVE ColumnOf(u, g, i) = ColumnOf(w, h, i)
  <2>1. Mine(g, i) = Mine(h, i)
    BY <1>4, <1>7
  <2>2. Pick(u, Mine(h, i)) = Pick(w, Mine(h, i))
    <3>1. \A k \in DOMAIN w : u[k] = w[k]
      BY <1>2
    <3> QED BY <3>1, <1>1, <1>3, PickSkips
  <2> QED BY <2>1, <2>2 DEF ColumnOf
<1>8. ASSUME NEW i \in Int, i > Len(S) PROVE ColumnOf(w, h, i) = <<>>
  <2>1. Mine(h, i) = {}
    <3> SUFFICES ASSUME NEW k \in DOMAIN h, h[k] = i PROVE FALSE
      BY DEF Mine
    <3>1. k \in 1..Len(h)
      BY <1>1, <1>2
    <3>2. h[k] <= Len(S) /\ h[k] \in Nat
      BY <3>1, <1>1
    <3>3. i <= Len(S)
      BY <3>2
    <3> QED BY <3>3, <1>8
  <2>2. Pick(w, {}) = <<>>
    BY <1>1, PickNone
  <2>3. FootprintRun(<<>>, <<>>) = <<>>
    BY NoColumn, FootprintFold
  <2> QED BY <2>1, <2>2, <2>3 DEF ColumnOf
<1> QED BY <1>6, <1>7, <1>8 DEF u, g

LEMMA PickAll ==
  ASSUME NEW A, NEW w \in Seq(A)
  PROVE  Pick(w, DOMAIN w) = w
<1>1. /\ Len(w) \in Nat /\ DOMAIN w = (0 + 1)..Len(w) /\ 0 <= Len(w) /\ Len(w) <= Len(w)
      /\ 0 \in Nat
  OBVIOUS
<1>2. Pick(w, (0 + 1)..Len(w)) = SubSeq(w, 0 + 1, Len(w))
  <2> DEFINE n == Len(w)
  <2>1. n \in Nat /\ 0 <= n /\ n <= n
    BY <1>1
  <2> HIDE DEF n
  <2>2. n = Len(w)
    BY DEF n
  <2> QED BY <2>1, <2>2, <1>1, PickRange
<1>3. SubSeq(w, 0 + 1, Len(w)) = w
  OBVIOUS
<1> QED BY <1>1, <1>2, <1>3

\* One more trade at home in the last bar: the flow at the end of each.
LEMMA FlowAtStep ==
  ASSUME NEW S, NEW w, NEW h, Homes(S, w, h), NEW e \in TradeRec, NEW m \in Nat, Len(S) <= m,
         Len(S) \in Nat
  PROVE  LET u == Append(w, e)
             g == Append(h, m)
         IN /\ FlowAt(u, g, m) = View(FlowOf(u))
            /\ \A i \in Int : i < m => FlowAt(u, g, i) = FlowAt(w, h, i)
<1> DEFINE u == Append(w, e)
           g == Append(h, m)
           n == Len(w)
<1>1. w \in Seq(TradeRec) /\ h \in Seq(Nat) /\ Len(h) = n /\ \A i \in 1..n : h[i] <= Len(S)
  BY DEF Homes
<1>2. /\ n \in Nat /\ u \in Seq(TradeRec) /\ g \in Seq(Nat) /\ Len(u) = n + 1 /\ g[n + 1] = m
      /\ DOMAIN w = 1..n /\ DOMAIN h = 1..n /\ DOMAIN u = 1..(n + 1) /\ DOMAIN g = 1..(n + 1)
      /\ \A i \in 1..n : u[i] = w[i] /\ g[i] = h[i] /\ h[i] \in Nat
  BY <1>1, BothAppend
<1> HIDE DEF u, g, n
<1>3. \A i \in 1..n : i \in 1..(n + 1) /\ h[i] <= m
  BY <1>1, <1>2
<1>4. Below(g, m) = DOMAIN u
  <2>1. \A i \in 1..(n + 1) : i \in 1..n \/ i = n + 1
    BY <1>2
  <2>2. \A i \in 1..(n + 1) : g[i] <= m
    BY <2>1, <1>2, <1>3
  <2> QED BY <2>2, <1>2 DEF Below
<1>5. FlowAt(u, g, m) = View(FlowOf(u))
  <2>1. Pick(u, DOMAIN u) = u
    BY <1>2, PickAll
  <2> QED BY <2>1, <1>4 DEF FlowAt
<1>6. ASSUME NEW i \in Int, i < m PROVE FlowAt(u, g, i) = FlowAt(w, h, i)
  <2>1. \A k \in 1..(n + 1) : k \in 1..n \/ (k = n + 1 /\ ~(g[k] <= i))
    BY <1>2, <1>6
  <2>2. Below(g, i) = Below(h, i) /\ Below(h, i) \subseteq DOMAIN w
    BY <2>1, <1>2, <1>3 DEF Below
  <2>3. \A k \in DOMAIN w : u[k] = w[k]
    BY <1>2
  <2>4. Pick(u, Below(h, i)) = Pick(w, Below(h, i))
    BY <2>2, <2>3, <1>1, PickSkips
  <2> QED BY <2>2, <2>4 DEF FlowAt
<1> QED BY <1>5, <1>6 DEF u, g

-----------------------------------------------------------------------------
(* The page is a fold of each part over the trades taken. *)

Anchor == TpoAnchor(date, Shown)
\* What runLive has accumulated is a fold over the trades taken, bar by bar.
FoldsInv ==
    PageSpec =>
        /\ agg = AggRun(spec, NoBars, Taken)
        /\ vp = ProfileRun(NoProfile, Taken)
        /\ tpo = IF Taken = <<>> THEN NewTPO(Anchor) ELSE TpoRun(NewTPO(Anchor), Taken)
        /\ fps = Columns(TheBars, Taken, home)
        /\ shown = Flows(TheBars, Taken, home)

LEMMA NoBarsGood ==
  ASSUME NEW s
  PROVE  NoBars \in GoodAggs(s) /\ Snapshot(NoBars) = <<>>
<1>1. BarsOk(s, NoBars, <<>>, <<>>)
  BY BarsOkStart
<1>2. GoodBars(s, NoBars)
  BY <1>1 DEF BarsOk
<1>3. <<>> \o <<>> = <<>>
  OBVIOUS
<1> QED BY <1>2, <1>3 DEF GoodAggs, GoodBars, Snapshot, NoBars

LEMMA NoProfileType == NoProfile \in Profiles
<1>1. <<>> = [x \in {} |-> x] /\ {} \in FiniteSets_Int
  BY FS_EmptySet DEF FiniteSets_Int
<1>2. <<>> \in [{} -> Nat \ {0}]
  BY <1>1
<1> QED BY <1>1, <1>2 DEF Profiles, NoProfile

LEMMA FoldsInvInit == ASSUME PageAssumption, PageInit PROVE FoldsInv
<1>1. Taken = <<>>
  BY NothingTaken DEF PageInit
<1>2. agg = NoBars /\ vp = NoProfile /\ tpo = NewTPO(Anchor) /\ fps = <<>> /\ shown = <<>>
  BY DEF PageInit, Anchor
<1>3. GoodSpec(spec)
  BY DEF PageInit, PageAssumption, GoodSpec
<1>4. AggRun(spec, NoBars, <<>>) = NoBars
  BY <1>3, NoBarsGood, AggFold
<1>5. NoProfile \in Profiles
  BY NoProfileType
<1>6. ProfileRun(NoProfile, <<>>) = NoProfile
  BY <1>5, ProfileFold
<1>7. TheBars = <<>>
  BY <1>2, NoBarsGood DEF TheBars
<1>8. \A w, h : Columns(<<>>, w, h) = <<>> /\ Flows(<<>>, w, h) = <<>>
  <2>1. Len(<<>>) = 0 /\ 1..0 = {}
    OBVIOUS
  <2>2. \A w, h : Columns(<<>>, w, h) = [i \in {} |-> ColumnOf(w, h, i)]
                  /\ Flows(<<>>, w, h) = [i \in {} |-> FlowAt(w, h, i)]
    BY <2>1 DEF Columns, Flows
  <2>3. \A f : DOMAIN f = {} /\ f = [i \in DOMAIN f |-> f[i]] => f = <<>>
    OBVIOUS
  <2> QED BY <2>2, <2>3
<1> QED BY <1>1, <1>2, <1>4, <1>6, <1>7, <1>8 DEF FoldsInv

LEMMA ColumnsStep ==
  ASSUME NEW S, NEW T, NEW w, NEW h, Homes(S, w, h), NEW e \in TradeRec, NEW f,
         Len(S) \in Nat, Len(T) = Len(S) \/ Len(T) = Len(S) + 1, Len(T) > 0,
         f = Columns(S, w, h)
  PROVE  LET m == Len(T)
             at == [i \in 1..m |-> IF i \in DOMAIN f THEN f[i] ELSE << >>]
         IN [at EXCEPT ![m] = FootprintTrade(@, e)] = Columns(T, Append(w, e), Append(h, m))
<1> DEFINE m == Len(T)
           at == [i \in 1..m |-> IF i \in DOMAIN f THEN f[i] ELSE << >>]
           u == Append(w, e)
           g == Append(h, m)
           x == [at EXCEPT ![m] = FootprintTrade(@, e)]
<1>1. m \in Nat /\ m \in 1..m
  OBVIOUS
<1>2. /\ ColumnOf(u, g, m) = FootprintTrade(ColumnOf(w, h, m), e)
      /\ \A i : i # m => ColumnOf(u, g, i) = ColumnOf(w, h, i)
      /\ \A i \in Int : i > Len(S) => ColumnOf(w, h, i) = <<>>
  <2> HIDE DEF m
  <2> QED BY <1>1, ColumnStep
<1>3. DOMAIN f = 1..Len(S) /\ \A i \in 1..Len(S) : f[i] = ColumnOf(w, h, i)
  BY DEF Columns
<1>4. Columns(T, u, g) = [i \in 1..m |-> ColumnOf(u, g, i)]
  BY DEF Columns
<1> HIDE DEF m, u, g
<1>5. \A i \in 1..m : at[i] = ColumnOf(w, h, i)
  <2> TAKE i \in 1..m
  <2>1. CASE i \in 1..Len(S)
    BY <2>1, <1>3
  <2>2. CASE i \notin 1..Len(S)
    <3>1. i > Len(S) /\ i \in Int
      BY <2>2, <1>1
    <3> QED BY <3>1, <2>2, <1>2, <1>3
  <2> QED BY <2>1, <2>2
<1>6. x = [i \in 1..m |-> IF i = m THEN FootprintTrade(at[m], e) ELSE at[i]]
  OBVIOUS
<1> HIDE DEF at
<1>7. x = [i \in 1..m |-> ColumnOf(u, g, i)]
  BY <1>1, <1>2, <1>5, <1>6
<1> QED BY <1>4, <1>7 DEF m, at, u, g

LEMMA FlowsStep ==
  ASSUME NEW S, NEW T, NEW w, NEW h, Homes(S, w, h), NEW e \in TradeRec, NEW f, NEW v,
         Len(S) \in Nat, Len(T) = Len(S) \/ Len(T) = Len(S) + 1, Len(T) > 0,
         f = Flows(S, w, h), v = View(FlowOf(Append(w, e)))
  PROVE  [i \in 1..Len(T) |-> IF i = Len(T) THEN v ELSE f[i]]
            = Flows(T, Append(w, e), Append(h, Len(T)))
<1> DEFINE m == Len(T)
           u == Append(w, e)
           g == Append(h, m)
<1>1. m \in Nat /\ Len(S) <= m
  OBVIOUS
<1>2. /\ FlowAt(u, g, m) = View(FlowOf(u))
      /\ \A i \in Int : i < m => FlowAt(u, g, i) = FlowAt(w, h, i)
  <2> HIDE DEF m
  <2> QED BY <1>1, FlowAtStep
<1>3. \A i \in 1..m : i # m => i \in 1..Len(S) /\ i < m /\ i \in Int
  OBVIOUS
<1>4. \A i \in 1..Len(S) : f[i] = FlowAt(w, h, i)
  BY DEF Flows
<1> HIDE DEF m, u, g
<1>5. \A i \in 1..m : (IF i = m THEN v ELSE f[i]) = FlowAt(u, g, i)
  BY <1>2, <1>3, <1>4 DEF u
<1> QED BY <1>5 DEF Flows, m, u, g

LEMMA TpoBase ==
  ASSUME PageAssumption, PageType, PageSpec, NEW t \in Int, Goes(t)
  PROVE  Anchor \in Int /\ NewTPO(Anchor) \in TpoRec(Anchor)
<1>1. OpenHours(date, HoursFor(date)) /\ date \in Int
  BY GoesWithin
<1>2. Anchor \in Int
  BY <1>1 DEF Anchor, TpoAnchor, OpenHours
<1>3. <<>> \in Periods
  <2>1. <<>> = [x \in {} |-> x] /\ {} \in FiniteSets_Int
    BY FS_EmptySet DEF FiniteSets_Int
  <2>2. <<>> \in [{} -> SUBSET Int]
    BY <2>1
  <2> QED BY <2>1, <2>2 DEF Periods
<1> QED BY <1>2, <1>3 DEF NewTPO, TpoRec

\* Deliver keeps every part a fold of the trades taken.
LEMMA FoldsInvStep ==
  ASSUME PageAssumption, PageType, OrchInv, OrchInv', BarsInv, FoldsInv,
         NEW e, Grows(e), Feed(e) \/ Deliver(e) \/ Skip(e)
  PROVE  FoldsInv'
<1>1. e \in TradeRec /\ e.ts \in Int
  BY DEF Grows, TradeRec
<1>2. /\ Taken' = IF Goes(e.ts) THEN Append(Taken, e) ELSE Taken
      /\ PageSpec' = PageSpec /\ spec' = spec /\ Anchor' = Anchor
  <2>1. date' = date /\ spec' = spec
    BY DEF Grows
  <2> QED BY <2>1, TakenStep DEF Anchor, TpoAnchor, HoursFor
<1>3. CASE Feed(e)
  BY <1>2, <1>3 DEF Feed, FoldsInv
<1>4. CASE Skip(e)
  <2>1. ~Goes(e.ts) /\ UNCHANGED <<agg, orch, vp, tpo, fps, shown, home>>
    BY <1>1, <1>4, KeepOne DEF Skip
  <2>2. TheBars' = TheBars
    BY <2>1 DEF TheBars, Snapshot
  <2> QED BY <1>2, <2>1, <2>2 DEF FoldsInv
<1>5. CASE Deliver(e)
  <2> DEFINE S == Snapshot(agg)
             T == Snapshot(agg')
             m == Len(T)
             u == Append(Taken, e)
             g == Append(home, m)
  <2>1. /\ PageSpec /\ Goes(e.ts) /\ GoodSpec(spec) /\ spec.kind = "time"
        /\ agg' = AddBar(spec, agg, e)
    <3>1. PageSpec /\ Goes(e.ts) /\ agg' = AddBar(spec, agg, e)
      BY <1>1, <1>5, KeepOne DEF Deliver
    <3> QED BY <3>1, SpecGood DEF PageSpec
  <2>2. /\ agg = AggRun(spec, NoBars, Taken) /\ vp = ProfileRun(NoProfile, Taken)
        /\ tpo = IF Taken = <<>> THEN NewTPO(Anchor) ELSE TpoRun(NewTPO(Anchor), Taken)
        /\ fps = Columns(S, Taken, home) /\ shown = Flows(S, Taken, home)
    BY <2>1 DEF FoldsInv, TheBars
  <2>3. GoodBars(spec, agg) /\ Homes(S, Taken, home) /\ Taken \in Seq(TradeRec)
    BY TakenType DEF BarsInv, BarsOk
  <2>4. Accepts(spec, e.ts)
    BY <2>1, GoesAccepts
  <2>5. Len(S) \in Nat /\ (m = Len(S) \/ m = Len(S) + 1) /\ m > 0
    <3>1. /\ S \in Seq(BarRec) /\ T \in Seq(BarRec)
          /\ Extends(S, T, e.qty) \/ Adds(S, T, e.qty)
      <4>1. "time" # "volume"
        OBVIOUS
      <4> QED BY <1>1, <2>1, <2>3, <2>4, <4>1, AddBarStep
    <3> HIDE DEF S, T
    <3>2. Len(S) \in Nat /\ (S # <<>> => Len(S) > 0)
      BY <3>1
    <3> QED BY <3>1, <3>2 DEF Extends, Adds
  <2>6. Taken' = u /\ u # <<>>
    BY <1>1, <1>2, <2>1, <2>3, AppendIs
  <2>7. agg' = AggRun(spec, NoBars, u)
    BY <1>1, <2>1, <2>2, <2>3, NoBarsGood, AggFold
  <2>8. vp' = ProfileRun(NoProfile, u)
    <3>1. vp' = ProfileTrade(vp, e)
      BY <1>5 DEF Deliver
    <3> QED BY <3>1, <1>1, <2>2, <2>3, NoProfileType, ProfileFold
  <2>9. tpo' = TpoRun(NewTPO(Anchor), u)
    <3>1. tpo' = TpoTrade(tpo, e)
      BY <1>5 DEF Deliver
    <3>2. Anchor \in Int /\ NewTPO(Anchor) \in TpoRec(Anchor)
      BY <1>1, <2>1, TpoBase
    <3>3. tpo = TpoRun(NewTPO(Anchor), Taken)
      <4>1. TpoRun(NewTPO(Anchor), <<>>) = NewTPO(Anchor)
        BY <3>2, TpoFold
      <4> QED BY <4>1, <2>2
    <3> QED BY <3>1, <3>2, <3>3, <1>1, <2>3, TpoFold
  <2>10. fps' = Columns(T, u, g)
    <3>1. fps' = LET at == [i \in 1..m |-> IF i \in DOMAIN fps THEN fps[i] ELSE << >>]
                 IN [at EXCEPT ![m] = FootprintTrade(@, e)]
      BY <1>5 DEF Deliver
    <3> HIDE DEF S, T
    <3> QED BY <3>1, <1>1, <2>2, <2>3, <2>5, ColumnsStep
  <2>11. shown' = Flows(T, u, g)
    <3>1. orch'.flow = FlowOf(u)
      <4>1. IsOrch(orch', PageRange'[1], PageRange'[2], Taken') /\ Taken' # <<>>
        BY <1>2, <2>1, <2>6 DEF OrchInv
      <4> QED BY <4>1, <2>6 DEF IsOrch
    <3>2. shown' = [i \in 1..m |-> IF i = m THEN View(orch'.flow) ELSE shown[i]]
      BY <1>5 DEF Deliver, View
    <3>3. View(orch'.flow) = View(FlowOf(u))
      BY <3>1
    <3>4. shown' = [i \in 1..m |-> IF i = m THEN View(FlowOf(u)) ELSE shown[i]]
      BY <3>2, <3>3
    <3> HIDE DEF S, T
    <3>5. [i \in 1..Len(T) |-> IF i = Len(T) THEN View(FlowOf(u)) ELSE shown[i]]
            = Flows(T, Append(Taken, e), Append(home, Len(T)))
      BY <1>1, <2>2, <2>3, <2>5, FlowsStep
    <3> QED BY <3>4, <3>5
  <2>12. home' = g /\ TheBars' = T
    BY <1>5 DEF Deliver, TheBars, Snapshot
  <2> QED BY <1>2, <2>1, <2>6, <2>7, <2>8, <2>9, <2>10, <2>11, <2>12 DEF FoldsInv
<1> QED BY <1>3, <1>4, <1>5

-----------------------------------------------------------------------------
(* The composed page. *)

\* The trades of bar i are those after the ones of bar i - 1.
LEMMA MineIs ==
  ASSUME NEW S, NEW w, NEW h, BarsFit(S, w, h), NEW i \in 1..Len(S)
  PROVE  LET a == Cardinality(Below(h, i - 1))
             b == Cardinality(Below(h, i))
         IN /\ a \in Nat /\ b \in 1..Len(w) /\ (i = 1 => a = 0)
            /\ Pick(w, Below(h, i)) = SubSeq(w, 1, b)
            /\ Pick(w, Mine(h, i)) = SubSeq(w, a + 1, b)
<1> DEFINE a == Cardinality(Below(h, i - 1))
           b == Cardinality(Below(h, i))
           n == Len(w)
<1>1. /\ Homes(S, w, h) /\ w \in Seq(TradeRec) /\ h \in Seq(Nat) /\ Len(h) = n /\ n \in Nat
      /\ S \in Seq(BarRec) /\ \A k \in 1..n : h[k] \in 1..Len(S)
  BY DEF BarsFit, Homes
<1>2. i \in Nat /\ i - 1 \in Int /\ i \in Int /\ DOMAIN h = 1..n /\ \A k \in 1..n : h[k] \in Nat /\ h[k] >= 1
  BY <1>1
<1>3. /\ Below(h, i - 1) = 1..a /\ a \in 0..n
      /\ Below(h, i) = 1..b /\ b \in 0..n
  <2>1. \A x \in Int : Below(h, x) = 1..Cardinality(Below(h, x))
                         /\ Cardinality(Below(h, x)) \in 0..n
    BY <1>1, BelowFacts
  <2> HIDE DEF n
  <2> QED BY <2>1, <1>2
<1>4. Mine(h, i) = Below(h, i) \ Below(h, i - 1) /\ Below(h, i - 1) \subseteq Below(h, i)
  BY <1>2 DEF Mine, Below
<1>5. i = 1 => Below(h, i - 1) = {}
  BY <1>2 DEF Below
<1> HIDE DEF a, b
<1>6. a <= b /\ (i = 1 => a = 0)
  <2>1. a \in Nat /\ b \in Nat
    BY <1>1, <1>3
  <2>2. CASE a > 0
    <3>1. a \in 1..a /\ 1 \in 1..a
      BY <2>1, <2>2
    <3>2. a \in 1..b /\ i # 1
      BY <3>1, <1>3, <1>4, <1>5
    <3> QED BY <3>2, <2>1
  <2>3. CASE ~(a > 0)
    BY <2>1, <2>3
  <2> QED BY <2>2, <2>3
<1>7. Mine(h, i) = (a + 1)..b
  BY <1>3, <1>4
<1>8. Pick(w, (a + 1)..b) = SubSeq(w, a + 1, b)
  <2>1. a \in Nat /\ b \in Nat /\ b <= Len(w)
    BY <1>1, <1>3
  <2> QED BY <2>1, <1>1, <1>6, PickRange
<1>9. Pick(w, Below(h, i)) = SubSeq(w, 1, b)
  <2>1. 0 \in Nat /\ b \in Nat /\ 0 <= b /\ b <= Len(w) /\ 0 + 1 = 1
    BY <1>1, <1>3
  <2>2. Pick(w, (0 + 1)..b) = SubSeq(w, 0 + 1, b)
    BY <2>1, <1>1, PickRange
  <2> QED BY <2>1, <2>2, <1>3
<1>10. b \in 1..n
  <2>1. PICK k \in 1..n : h[k] = i
    BY DEF BarsFit
  <2>2. k \in 1..b
    BY <2>1, <1>2, <1>3 DEF Below
  <2> QED BY <2>2, <1>1, <1>3
<1> QED BY <1>1, <1>3, <1>6, <1>7, <1>8, <1>9, <1>10 DEF a, b

\* A fold over the trades in the range the boundaries of the whole page are for.
LEMMA RangeFits ==
  ASSUME NEW S, NEW w, NEW h, BarsFit(S, w, h), w # <<>>
  PROVE  LET r == FlowRange(w, S)
         IN r[1] \in Int /\ r[2] \in Int /\ Within(w, r[1], r[2])
<1> DEFINE n == Len(w)
           L == Len(S)
           A == {S[1].start, w[1].ts}
           B == {S[L].end, w[n].ts + 1}
<1>1. /\ w \in Seq(TradeRec) /\ n \in Nat /\ n >= 1 /\ DOMAIN w = 1..n
      /\ S \in Seq(BarRec) /\ L \in Nat /\ (\A i \in 1..n : h[i] \in 1..L)
      /\ \A i, j \in 1..n : i <= j => w[i].ts <= w[j].ts
  <2>1. w \in Seq(TradeRec) /\ S \in Seq(BarRec) /\ Ordered(w) /\ \A i \in 1..n : h[i] \in 1..L
    BY DEF BarsFit, Homes
  <2>2. DOMAIN w = 1..n
    BY <2>1
  <2> QED BY <2>1, <2>2 DEF Ordered
<1>2. L >= 1
  <2>1. 1 \in 1..n
    BY <1>1
  <2>2. h[1] \in 1..L
    BY <2>1, <1>1
  <2> QED BY <2>2, <1>1
<1>3. /\ \A i \in 1..n : w[i].ts \in Int
      /\ \A i \in 1..L : S[i].start \in Int /\ S[i].end \in Int
  <2>1. (\A e \in TradeRec : e.ts \in Int) /\ \A b \in BarRec : b.start \in Int /\ b.end \in Int
    BY DEF TradeRec, BarRec
  <2> HIDE DEF n, L
  <2>2. (\A i \in 1..n : w[i] \in TradeRec) /\ \A i \in 1..L : S[i] \in BarRec
    BY <1>1 DEF n, L
  <2> QED BY <2>1, <2>2
<1>4. FlowRange(w, S) = <<Min(A), Max(B)>>
  BY DEF FlowRange, Last
<1>5. 1 \in 1..n /\ n \in 1..n /\ 1 \in 1..L /\ L \in 1..L
  BY <1>1, <1>2
<1>6. A \subseteq Int /\ B \subseteq Int /\ A # {} /\ B # {} /\ IsFiniteSet(A) /\ IsFiniteSet(B)
  <2>1. \A x, y : IsFiniteSet({x, y})
    <3> TAKE x, y
    <3>1. {x, y} = {x} \cup {y} /\ IsFiniteSet({x}) /\ IsFiniteSet({y})
      BY FS_Singleton
    <3> QED BY <3>1, FS_Union
  <2>2. A \subseteq Int /\ B \subseteq Int
    BY <1>3, <1>5
  <2>3. A # {} /\ B # {}
    OBVIOUS
  <2>4. IsFiniteSet(A) /\ IsFiniteSet(B)
    BY <2>1
  <2> QED BY <2>2, <2>3, <2>4
<1>7. w[1].ts \in A /\ w[n].ts + 1 \in B
  OBVIOUS
<1> HIDE DEF A, B, n, L
<1>8. Min(A) \in Int /\ Min(A) <= w[1].ts /\ Max(B) \in Int /\ w[n].ts + 1 <= Max(B)
  <2>1. Min(A) \in A /\ \A y \in A : Min(A) <= y
    BY <1>6, Extremes
  <2>2. Max(B) \in B /\ \A y \in B : y <= Max(B)
    BY <1>6, Extremes
  <2> QED BY <2>1, <2>2, <1>6, <1>7
<1>9. \A i \in 1..n : Min(A) <= w[i].ts /\ w[i].ts < Max(B)
  <2> TAKE i \in 1..n
  <2>1. 1 <= i /\ i <= n
    BY <1>1
  <2>2. w[1].ts <= w[i].ts /\ w[i].ts <= w[n].ts
    BY <2>1, <1>1, <1>5
  <2> QED BY <2>2, <1>3, <1>5, <1>8
<1>10. \A x, y : <<x, y>>[1] = x /\ <<x, y>>[2] = y
  OBVIOUS
<1> QED BY <1>1, <1>4, <1>8, <1>9, <1>10 DEF Within

\* The flow after the first b trades does not depend on the range of the boundaries.
LEMMA PrefixFlow ==
  ASSUME NEW from \in Int, NEW to \in Int, NEW w \in Seq(TradeRec), Ordered(w), w # <<>>,
         Within(w, from, to), NEW b \in 1..Len(w)
  PROVE  FoldLeft(OnFlow, Orchestrator(Boundaries(from, to)), SubSeq(w, 1, b)).flow
            = FlowOf(SubSeq(w, 1, b))
<1> DEFINE u == SubSeq(w, 1, b)
<1>1. /\ Len(w) \in Nat /\ b \in Nat /\ u \in Seq(TradeRec) /\ Len(u) = b /\ DOMAIN u = 1..b
      /\ DOMAIN w = 1..Len(w) /\ u # <<>> /\ \A i \in 1..b : u[i] = w[i] /\ i \in 1..Len(w)
  OBVIOUS
<1> HIDE DEF u
<1>2. Ordered(u) /\ Within(u, from, to)
  BY <1>1 DEF Ordered, Within
<1>3. IsOrch(OrchRun(Orchestrator(Boundaries(from, to)), u), from, to, u)
  BY <1>1, <1>2, OrchFacts
<1> QED BY <1>1, <1>3 DEF IsOrch, OrchRun, u

\* The flow of the composed page is the one shown.
LEMMA SampleIs ==
  ASSUME NEW S, NEW w, NEW h, BarsFit(S, w, h), w # <<>>
  PROVE  SampleFlow(w, S) = Flows(S, w, h)
<1> DEFINE r == FlowRange(w, S)
           from == r[1]
           to == r[2]
           after(n) == FoldLeft(OnFlow, Orchestrator(Boundaries(from, to)), SubSeq(w, 1, n)).flow
           used == Used(w, S)
<1>1. SampleFlow(w, S) = [i \in 1..Len(S) |-> [vwap |-> VwapValue(after(used[i])),
                                               cvd |-> CvdValue(after(used[i]))]]
  BY DEF SampleFlow
<1>2. from \in Int /\ to \in Int /\ Within(w, from, to)
  BY RangeFits
<1>3. w \in Seq(TradeRec) /\ Ordered(w)
  BY DEF BarsFit, Homes
<1> HIDE DEF from, to
<1>4. \A b \in 1..Len(w) : after(b) = FlowOf(SubSeq(w, 1, b))
  BY <1>2, <1>3, PrefixFlow
<1>5. used = [i \in 1..Len(S) |-> Cardinality(Below(h, i))]
  BY UsedIs
<1> HIDE DEF used, after
<1>6. \A i \in 1..Len(S) : after(used[i]) = FlowOf(Pick(w, Below(h, i)))
  <2> TAKE i \in 1..Len(S)
  <2>1. /\ Cardinality(Below(h, i)) \in 1..Len(w)
        /\ Pick(w, Below(h, i)) = SubSeq(w, 1, Cardinality(Below(h, i)))
    BY MineIs
  <2>2. used[i] = Cardinality(Below(h, i))
    BY <1>5
  <2> QED BY <2>1, <2>2, <1>4
<1>7. \A i \in 1..Len(S) : FlowAt(w, h, i) = [vwap |-> VwapValue(after(used[i])),
                                              cvd |-> CvdValue(after(used[i]))]
  BY <1>6 DEF FlowAt, View
<1> QED BY <1>1, <1>7 DEF Flows

\* Its footprints are the columns.
LEMMA FootprintsAre ==
  ASSUME NEW S, NEW w, NEW h, BarsFit(S, w, h)
  PROVE  SnapshotFootprints(w, S)
            = [i \in 1..Len(S) |-> SnapshotBarFootprint(Columns(S, w, h)[i])]
<1> DEFINE used == Used(w, S)
           from(i) == IF i = 1 THEN 1 ELSE used[i - 1] + 1
<1>1. SnapshotFootprints(w, S) =
        [i \in 1..Len(S) |-> SnapshotBarFootprint(FootprintRun(<<>>, SubSeq(w, from(i), used[i])))]
  BY DEF SnapshotFootprints, FootprintRun
<1>2. used = [i \in 1..Len(S) |-> Cardinality(Below(h, i))]
  BY UsedIs
<1>3. S \in Seq(BarRec)
  BY DEF BarsFit
<1> HIDE DEF used
<1>4. ASSUME NEW i \in 1..Len(S)
      PROVE  FootprintRun(<<>>, SubSeq(w, from(i), used[i])) = Columns(S, w, h)[i]
  <2> DEFINE a == Cardinality(Below(h, i - 1))
  <2>1. /\ a \in Nat /\ (i = 1 => a = 0)
        /\ Pick(w, Mine(h, i)) = SubSeq(w, a + 1, Cardinality(Below(h, i)))
    BY MineIs
  <2>2. used[i] = Cardinality(Below(h, i))
    BY <1>2
  <2>3. i # 1 => used[i - 1] = a
    <3>1. i # 1 => i - 1 \in 1..Len(S)
      BY <1>3
    <3> QED BY <3>1, <1>2
  <2> HIDE DEF a
  <2>4. from(i) = a + 1
    BY <2>1, <2>3
  <2>5. Columns(S, w, h)[i] = FootprintRun(<<>>, Pick(w, Mine(h, i)))
    BY DEF Columns, ColumnOf
  <2> QED BY <2>1, <2>2, <2>4, <2>5
<1> HIDE DEF from
<1> QED BY <1>1, <1>4

\* Aggregate is the same fold.
LEMMA AggregateIs == \A s, w : Aggregate(s, w) = AggRun(s, NoBars, w)
  BY DEF Aggregate, AggRun

LEMMA FoldsInvImplies ==
  ASSUME PageAssumption, PageType, BarsInv, FoldsInv
  PROVE  SamePage
<1> SUFFICES ASSUME PageSpec, Taken # <<>>
             PROVE  FromTrades(trades, date, Shown, spec) =
                      [error |-> FALSE, bars |-> TheBars, flow |-> shown,
                       footprints |-> [i \in DOMAIN fps |-> SnapshotBarFootprint(fps[i])],
                       profile |-> SnapshotProfile(vp), tpo |-> TPOView(tpo)]
  BY DEF SamePage
<1>1. /\ agg = AggRun(spec, NoBars, Taken) /\ vp = ProfileRun(NoProfile, Taken)
      /\ tpo = TpoRun(NewTPO(Anchor), Taken)
      /\ fps = Columns(TheBars, Taken, home) /\ shown = Flows(TheBars, Taken, home)
  BY DEF FoldsInv
<1>2. BarsFit(TheBars, Taken, home)
  BY PageFit
<1>3. TheBars # <<>>
  <2>1. Taken \in Seq(TradeRec)
    BY DEF PageType, BarsInv, BarsOk, Homes
  <2>2. 1 \in 1..Len(Taken)
    <3> DEFINE w == Taken
    <3>1. w \in Seq(TradeRec) /\ w # <<>>
      BY <2>1
    <3> HIDE DEF w
    <3>2. 1 \in 1..Len(w)
      BY <3>1
    <3> QED BY <3>2 DEF w
  <2>3. home[1] \in 1..Len(TheBars)
    BY <2>2, <1>2 DEF BarsFit
  <2>4. \A z : z = <<>> => 1..Len(z) = {}
    OBVIOUS
  <2> QED BY <2>3, <2>4
<1>4. FromTrades(trades, date, Shown, spec) = ViewOf(Taken, TheBars, date, Shown)
  <2>1. Keep(trades, date, spec.sessions) = Taken
    BY DEF Taken
  <2>2. Snapshot(Aggregate(spec, Taken)) = TheBars
    BY <1>1, AggregateIs DEF TheBars
  <2> QED BY <2>1, <2>2 DEF FromTrades, FromKept
<1>5. SampleFlow(Taken, TheBars) = shown
  BY <1>1, <1>2, SampleIs
<1>6. SnapshotFootprints(Taken, TheBars) = [i \in DOMAIN fps |-> SnapshotBarFootprint(fps[i])]
  <2>1. DOMAIN fps = 1..Len(TheBars)
    BY <1>1 DEF Columns
  <2> QED BY <2>1, <1>1, <1>2, FootprintsAre
<1>7. FoldLeft(ProfileTrade, NoProfile, Taken) = vp
  BY <1>1 DEF ProfileRun
<1>8. FoldLeft(TpoTrade, NewTPO(TpoAnchor(date, Shown)), Taken) = tpo
  BY <1>1 DEF TpoRun, Anchor
<1> QED BY <1>3, <1>4, <1>5, <1>6, <1>7, <1>8 DEF ViewOf

-----------------------------------------------------------------------------
(* The invariant and the theorems. *)

\* The profile has only rows with volume.
ProfileInv == vp \in Profiles

LEMMA ProfileInvStep ==
  ASSUME ProfileInv, NEW e, Grows(e), Feed(e) \/ Deliver(e) \/ Skip(e)
  PROVE  ProfileInv'
<1>1. vp' = vp \/ vp' = ProfileTrade(vp, e)
  BY DEF Feed, Deliver, Skip
<1> QED BY <1>1, ProfileTradeType DEF ProfileInv, Grows

LEMMA AreaInvImplies == ASSUME ProfileInv PROVE AreaCovers
<1>1. Covers(vp)
  BY AreaFacts DEF ProfileInv
<1> QED BY <1>1 DEF AreaCovers, Covers

\* The inductive invariant.
PageInv == PageType /\ OrchInv /\ BarsInv /\ ProfileInv /\ FoldsInv

LEMMA PageInvInit == ASSUME PageAssumption, PageInit PROVE PageInv
<1>1. ProfileInv
  BY NoProfileType DEF PageInit, ProfileInv
<1> QED BY <1>1, PageTypeInit, OrchInvInit, BarsInvInit, FoldsInvInit DEF PageInv

LEMMA PageInvStep == ASSUME PageAssumption, PageInv, [PageNext]_pageVars PROVE PageInv'
<1>1. CASE PageNext
  <2>1. PICK e \in TradeRec : Grows(e) /\ (Feed(e) \/ Deliver(e) \/ Skip(e))
    BY <1>1, StepGrows DEF PageInv
  <2>2. PageType'
    BY <2>1, PageTypeStep DEF PageInv
  <2>3. OrchInv'
    BY <2>1, OrchInvStep DEF PageInv
  <2>4. BarsInv'
    BY <2>1, BarsInvStep DEF PageInv
  <2>5. ProfileInv'
    BY <2>1, ProfileInvStep DEF PageInv
  <2>6. FoldsInv'
    BY <2>1, <2>3, FoldsInvStep DEF PageInv
  <2> QED BY <2>2, <2>3, <2>4, <2>5, <2>6 DEF PageInv
<1>2. CASE UNCHANGED pageVars
  <2>1. /\ date' = date /\ spec' = spec /\ trades' = trades /\ agg' = agg /\ orch' = orch
        /\ vp' = vp /\ tpo' = tpo /\ fps' = fps /\ shown' = shown /\ home' = home
    BY <1>2 DEF pageVars
  <2>2. /\ PageSpec' = PageSpec /\ Shown' = Shown /\ Taken' = Taken /\ TheBars' = TheBars
        /\ PageRange' = PageRange /\ Anchor' = Anchor
    BY <2>1 DEF PageSpec, Shown, Taken, Keep, TheBars, PageRange, Anchor
  <2> QED BY <2>1, <2>2 DEF PageInv, PageType, OrchInv, BarsInv, ProfileInv, FoldsInv
<1> QED BY <1>1, <1>2

\* Every reachable state of the page is typed, and its orchestrator, bars, profile
\* and columns are what the trades taken make of them one by one (runLive).
THEOREM PageInvHolds == PageSpecification => []PageInv
<1>1. PageInit => PageInv
  BY PageInvInit, PageAssumption
<1>2. PageInv /\ [PageNext]_pageVars => PageInv'
  BY PageInvStep, PageAssumption
<1> QED BY <1>1, <1>2, PTL DEF PageSpecification

\* VWAP and CVD are of the trades since the last edge of the calendar: the
\* boundaries miss none, and each resets once (Orchestrator.OnEvent).
THEOREM FlowSinceEdgeHolds == PageSpecification => []FlowSinceEdge
<1>1. PageInv => FlowSinceEdge
  BY OrchInvImplies DEF PageInv
<1> QED BY <1>1, PageInvHolds, PTL

\* Whatever the spec and the tape, no contract is lost or counted twice between
\* the bars, and each keeps to the bound of its kind (aggregation).
THEOREM BarsPartitionHolds == PageSpecification => []BarsPartition
<1>1. PageInv => BarsPartition
  BY BarsInvImplies, PageAssumption DEF PageInv
<1> QED BY <1>1, PageInvHolds, PTL

\* The value area holds 70% of the volume and has no row to spare at its ends
\* (VolumeProfile.ValueArea): the walk reaches its target.
THEOREM AreaCoversHolds == PageSpecification => []AreaCovers
<1>1. PageInv => AreaCovers
  BY AreaInvImplies DEF PageInv
<1> QED BY <1>1, PageInvHolds, PTL

\* Whatever the tape, the page runLive has built trade by trade is the page
\* compose.FromTrades makes of the same trades: bars, flow, footprints, profile and TPO.
THEOREM SamePageHolds == PageSpecification => []SamePage
<1>1. PageInv => SamePage
  BY FoldsInvImplies, PageAssumption DEF PageInv
<1> QED BY <1>1, PageInvHolds, PTL
=============================================================================
